---- MODULE Spec2Model ----
(***************************************************************************)
(* S3MP: a mirror between a local directory tree and an S3 bucket.         *)
(*                                                                         *)
(* Keys are modelled as sequences of one-character strings, so that the    *)
(* prefix and delimiter arithmetic of the listing API is computed and not  *)
(* assumed.  "f/sub/c" is written <<"f","/","s","/","c">> (folder "sub"    *)
(* is abbreviated to one character).                                       *)
(*                                                                         *)
(* Spec        the query layer (s3_utils.py) and the remote deletions      *)
(*             acting on one bucket.                                       *)
(* SpecMirror  the MirrorPath transfers (mirror_path.py) between the       *)
(*             bucket and a local mirror, under a progress callback.       *)
(* SpecMPU     resume_multipart_upload (multipart_uploads.py): the main    *)
(*             thread and its part-upload workers, step by step.           *)
(***************************************************************************)
EXTENDS Integers, Sequences, FiniteSets, TLC

VARIABLES
    bucket,     \* remote store, the default bucket: function from stored key to [size, ctype]
    local,      \* local mirror: function from path (a key without trailing "/") to [kind, size]
    callback,   \* S3MPConfig.callback: [kind, objs, seen]
    last,       \* the operation that ran last: its arguments, the store before it, what it did
    ops,        \* number of transfers run so far
    mpus,       \* open multipart uploads of the bucket, in listing order: [id, key, parts]
    rs,         \* resume_multipart_upload: its position and local variables
    mlog,       \* what resume_multipart_upload has asked of the store so far
    mp,         \* the MirrorPath object at hand: its attributes
    config,     \* S3MPConfig, the singleton: its fields
    other       \* a second bucket, for a MirrorPath that names a bucket of its own

vars == <<bucket, local, callback, last, ops, mpus, rs, mlog, mp, config, other>>

----------------------------------------------------------------------------
(* Bounds *)

MaxStored == 4      \* objects in the bucket at start
MaxLocal == 2       \* files in the local mirror at start
MaxDepth == 6       \* nesting of download_to_mirror calls before the interpreter gives up
MaxOps == 1         \* transfers in one run
MaxLocalSize == 2   \* bytes of a file in the local mirror at start
PageSize == 2       \* entries per list_objects_v2 response when MaxKeys is not given

----------------------------------------------------------------------------
(* Keys *)

SLASH == "/"

K_f     == <<"f">>
K_f_    == <<"f", "/">>
K_fa    == <<"f", "/", "a">>
K_fa_   == <<"f", "/", "a", "/">>
K_fb    == <<"f", "/", "b">>
K_fs    == <<"f", "/", "s">>
K_fs_   == <<"f", "/", "s", "/">>
K_fsc   == <<"f", "/", "s", "/", "c">>
K_f2    == <<"f", "2">>
K_fox   == <<"f", "o", "/", "x">>
K_g     == <<"g">>
K_g_    == <<"g", "/">>
K_gd    == <<"g", "/", "d">>

\* keys an object may be stored at (files, and folder markers ending in "/")
StoreKeys == {K_f_, K_fa, K_fb, K_fs_, K_fsc, K_f2, K_fox, K_gd}

\* keys the operations are called with
QueryKeys == StoreKeys \cup {K_f, K_fa_, K_fs, K_g, K_g_}

\* byte order of the characters in use
CharOrd(c) ==
    CASE c = "/" -> 47
      [] c = "2" -> 50
      [] c = "a" -> 97
      [] c = "b" -> 98
      [] c = "c" -> 99
      [] c = "d" -> 100
      [] c = "f" -> 102
      [] c = "g" -> 103
      [] c = "o" -> 111
      [] c = "s" -> 115
      [] c = "x" -> 120

\* str.startswith
StartsWith(k, p) ==
    /\ Len(p) <= Len(k)
    /\ SubSeq(k, 1, Len(p)) = p

\* str.endswith("/")
EndsWithSlash(k) == Len(k) > 0 /\ k[Len(k)] = SLASH

\* lexicographic (UTF-8 binary) order of keys, the order S3 lists in
KeyLess(a, b) ==
    \E i \in 1..(Len(a) + 1) :
        /\ i <= Len(b)
        /\ \A j \in 1..(i - 1) : a[j] = b[j]
        /\ \/ i = Len(a) + 1
           \/ CharOrd(a[i]) < CharOrd(b[i])

RECURSIVE SortKeys(_)
SortKeys(S) ==
    IF S = {} THEN <<>>
    ELSE LET m == CHOOSE x \in S : \A y \in S \ {x} : KeyLess(x, y)
         IN  <<m>> \o SortKeys(S \ {m})

\* positions of "/" in k after the first n characters
SlashAfter(k, n) == {i \in (n + 1)..Len(k) : k[i] = SLASH}

Min(S) == CHOOSE x \in S : \A y \in S : x <= y

----------------------------------------------------------------------------
(* The remote store as the code sees it through boto3 *)

FileType == "binary/octet-stream"
DirType  == "application/x-directory"

\* client.delete_object / Object.delete: removing an absent key succeeds
DeleteObject(b, k) == [x \in DOMAIN b \ {k} |-> b[x]]

\* client.put_object / upload_file
PutObject(b, k, obj) == [x \in DOMAIN b \cup {k} |-> IF x = k THEN obj ELSE b[x]]

\* the entry a stored key k contributes to a delimiter listing under prefix p:
\* a common prefix when "/" occurs after p, the key itself otherwise
ListEntry(k, p) ==
    IF SlashAfter(k, Len(p)) # {}
    THEN [kind |-> "prefix", key |-> SubSeq(k, 1, Min(SlashAfter(k, Len(p))))]
    ELSE [kind |-> "content", key |-> k]

\* all entries of list_objects_v2(Prefix=p, Delimiter="/"), in listing order
ListEntries(b, p) ==
    LET matching == {k \in DOMAIN b : StartsWith(k, p)}
        entries  == {ListEntry(k, p) : k \in matching}
        order    == SortKeys({e.key : e \in entries})
    IN  [i \in 1..Len(order) |-> CHOOSE e \in entries : e.key = order[i]]

IsContent(e) == e.kind = "content"
IsPrefix(e) == e.kind = "prefix"

\* one response of client.list_objects_v2(Prefix=p, Delimiter="/", MaxKeys=maxKeys)
\* starting at entry number `start`; token = 0 stands for no NextContinuationToken
ListObjectsV2(b, p, maxKeys, start) ==
    LET all  == ListEntries(b, p)
        stop == IF start + maxKeys - 1 < Len(all) THEN start + maxKeys - 1 ELSE Len(all)
        page == SubSeq(all, start, stop)
    IN  [Contents       |-> SelectSeq(page, IsContent),
         CommonPrefixes |-> SelectSeq(page, IsPrefix),
         token          |-> IF stop < Len(all) THEN stop + 1 ELSE 0]

\* client.head_object: the stored object, or a 404 error
HeadObject(b, k) ==
    IF k \in DOMAIN b THEN [ok |-> TRUE, obj |-> b[k]] ELSE [ok |-> FALSE, code |-> "404"]

\* bucket.objects.filter(Prefix=p): every stored key that starts with p, in listing order
ObjectsFilter(b, p) == SortKeys({k \in DOMAIN b : StartsWith(k, p)})

----------------------------------------------------------------------------
(* s3_utils.py *)

s3_list_single_key(b, key) == ListObjectsV2(b, key, 1, 1)

\* an s3_list_child_keys that stops after its first response
ListChildPagesOnce(b, key, start, acc) ==
    LET resp == ListObjectsV2(b, key, PageSize, start)
        keys == [i \in 1..Len(resp.Contents) |-> resp.Contents[i].key]
        pfxs == [i \in 1..Len(resp.CommonPrefixes) |-> resp.CommonPrefixes[i].key]
        NotSelf(k) == k # key
    IN  acc \o SelectSeq(keys, NotSelf) \o pfxs

RECURSIVE ListChildPages(_, _, _, _)
ListChildPages(b, key, start, acc) ==
    LET resp == ListObjectsV2(b, key, PageSize, start)
        keys == [i \in 1..Len(resp.Contents) |-> resp.Contents[i].key]
        pfxs == [i \in 1..Len(resp.CommonPrefixes) |-> resp.CommonPrefixes[i].key]
        NotSelf(k) == k # key
        got  == acc \o SelectSeq(keys, NotSelf) \o pfxs
    IN  IF resp.token # 0 THEN ListChildPages(b, key, resp.token, got) ELSE got

s3_list_child_keys(b, key) == ListChildPages(b, key, 1, <<>>)

\* the list_objects_v2 requests the loop of s3_list_child_keys sends, from entry `start` on
RECURSIVE ListChildRequests(_, _, _)
ListChildRequests(b, key, start) ==
    LET resp == ListObjectsV2(b, key, PageSize, start)
    IN  IF resp.token # 0 THEN 1 + ListChildRequests(b, key, resp.token) ELSE 1

\* a key_exists_on_s3 that looks at the Contents of the response only
key_exists_on_s3_contents_only(b, key) ==
    LET res == s3_list_single_key(b, key)
    IN  res.Contents # <<>>

key_exists_on_s3(b, key) ==
    LET res == s3_list_single_key(b, key)
    IN  res.Contents # <<>> \/ res.CommonPrefixes # <<>>

\* a key_is_file_on_s3 that lets the 404 of head_object through to its caller
key_is_file_on_s3_raising(b, key) ==
    LET head == HeadObject(b, key)
    IN  IF head.ok THEN [ret |-> TRUE, raised |-> "none"]
        ELSE [ret |-> FALSE, raised |-> "ClientError"]

\* [ret, raised]: head_object succeeds -> True; a 404 -> False; any other error is re-raised
key_is_file_on_s3(b, key) ==
    LET head == HeadObject(b, key)
    IN  IF head.ok THEN [ret |-> TRUE, raised |-> "none"]
        ELSE IF head.code = "404" THEN [ret |-> FALSE, raised |-> "none"]
        ELSE [ret |-> FALSE, raised |-> "ClientError"]

\* [ret, raised]: ValueError when key_exists_on_s3 is false; else the Size of the
\* first entry of Contents, or 0 when the response has no Contents
key_size_on_s3(b, key) ==
    IF ~key_exists_on_s3(b, key) THEN [ret |-> 0, raised |-> "ValueError"]
    ELSE LET res == s3_list_single_key(b, key)
         IN  [ret    |-> IF res.Contents # <<>> THEN b[res.Contents[1].key].size ELSE 0,
              raised |-> "none"]

RECURSIVE DeleteEach(_, _)
DeleteEach(b, keys) ==
    IF keys = <<>> THEN b ELSE DeleteEach(DeleteObject(b, Head(keys)), Tail(keys))

delete_child_keys_on_s3(b, key) == DeleteEach(b, s3_list_child_keys(b, key))

delete_key_on_s3(b, key) ==
    IF ~key_exists_on_s3(b, key) THEN b
    ELSE IF key_is_file_on_s3(b, key).ret THEN DeleteObject(b, key)
    ELSE delete_child_keys_on_s3(b, key)

----------------------------------------------------------------------------
(* mirror_path.py: remote side *)

exists_on_s3(b, key) == Len(ObjectsFilter(b, key)) > 0

\* [ret, raised]
is_file_on_s3(b, key) ==
    LET head == HeadObject(b, key)
    IN  IF head.ok THEN [ret |-> head.obj.ctype # DirType, raised |-> "none"]
        ELSE IF exists_on_s3(b, key) THEN [ret |-> FALSE, raised |-> "none"]
        ELSE [ret |-> FALSE, raised |-> "FileNotFoundError"]

delete_self_on_s3(b, key) == DeleteObject(b, key)

delete_children_on_s3(b, key) == DeleteEach(b, ObjectsFilter(b, key))

\* [bucket, raised]
delete_s3(b, key) ==
    IF ~exists_on_s3(b, key) THEN [bucket |-> b, raised |-> "none"]
    ELSE LET f == is_file_on_s3(b, key)
         IN  IF f.raised # "none" THEN [bucket |-> b, raised |-> f.raised]
             ELSE IF f.ret THEN [bucket |-> delete_self_on_s3(b, key), raised |-> "none"]
             ELSE [bucket |-> delete_children_on_s3(b, key), raised |-> "none"]

----------------------------------------------------------------------------
(* The local mirror: pathlib and the filesystem *)

Max(S) == CHOOSE x \in S : \A y \in S : x >= y

\* mirror_root / s3_key: pathlib drops a trailing "/"
LocalPath(key) == IF EndsWithSlash(key) THEN SubSeq(key, 1, Len(key) - 1) ELSE key

\* the directories above a path, the mirror root excluded
Ancestors(path) == {SubSeq(path, 1, i - 1) : i \in SlashAfter(path, 0)}

exists_in_mirror(loc, key) == LocalPath(key) \in DOMAIN loc

\* local_path.parent.mkdir(parents=True, exist_ok=True): [local, raised]
MkdirParents(loc, path) ==
    IF \E d \in Ancestors(path) : d \in DOMAIN loc /\ loc[d].kind = "file"
    THEN [local |-> loc, raised |-> "OSError"]
    ELSE [local  |-> [x \in DOMAIN loc \cup Ancestors(path) |->
                        IF x \in DOMAIN loc THEN loc[x] ELSE [kind |-> "dir", size |-> 0]],
          raised |-> "none"]

\* the file a transfer writes at a local path
WriteFile(loc, path, size) ==
    [x \in DOMAIN loc \cup {path} |-> IF x = path THEN [kind |-> "file", size |-> size] ELSE loc[x]]

----------------------------------------------------------------------------
(* mirror_path.py: sizes and the progress callback *)

\* [ret, raised]
get_size_bytes(b, loc, key, on_s3) ==
    IF on_s3 /\ exists_on_s3(b, key)
    THEN IF key \in DOMAIN b
         THEN [ret |-> b[key].size, raised |-> "none"]
         ELSE [ret |-> 0, raised |-> "ClientError"]
    ELSE IF exists_in_mirror(loc, key)
    THEN [ret |-> loc[LocalPath(key)].size, raised |-> "none"]
    ELSE [ret |-> 0, raised |-> "FileNotFoundError"]

\* [calls, raised]: the increments handed to S3MPConfig.callback.
\* cb.kind: "none" (no callback set), "tracking" (a callback with a _transfer_objs
\* collection), "tqdm" (FileSizeTQDMCallback, which has no _transfer_objs attribute).
\* own: the MirrorPath object is the caller's; the objects download_to_mirror
\* builds for the children of a folder are new ones, which no collection holds.
update_current_callback_on_skipped_transfer(cb, b, loc, key, is_download, own) ==
    IF cb.kind = "none" THEN [calls |-> <<>>, raised |-> "none"]
    ELSE IF cb.kind = "tqdm" THEN [calls |-> <<>>, raised |-> "AttributeError"]
    ELSE IF ~(own /\ key \in cb.objs) THEN [calls |-> <<>>, raised |-> "none"]
    ELSE LET sz == get_size_bytes(b, loc, key, is_download)
         IN  IF sz.raised # "none" THEN [calls |-> <<>>, raised |-> sz.raised]
             ELSE [calls |-> <<sz.ret>>, raised |-> "none"]

\* the increments a transfer of `size` bytes reports (the chunks are summed into one call)
TransferCalls(cb, size) == IF cb.kind = "none" \/ size = 0 THEN <<>> ELSE <<size>>

RECURSIVE SumSeq(_)
SumSeq(q) == IF q = <<>> THEN 0 ELSE Head(q) + SumSeq(Tail(q))

\* FileSizeTQDMCallback.__call__ applied to each increment in turn
Advance(cb, calls) == IF cb.kind = "none" THEN cb ELSE [cb EXCEPT !.seen = @ + SumSeq(calls)]

----------------------------------------------------------------------------
(* mirror_path.py: transfers *)

\* bucket.download_file onto the state st = [local, calls, downloads, raised]
DownloadFile(b, cb, st, key) ==
    LET path == LocalPath(key)
    IN  IF path \in DOMAIN st.local /\ st.local[path].kind = "dir"
        THEN [st EXCEPT !.downloads = Append(@, key), !.raised = "OSError"]
        ELSE [st EXCEPT !.local = WriteFile(@, path, b[key].size),
                        !.calls = @ \o TransferCalls(cb, b[key].size),
                        !.downloads = Append(@, key)]

RECURSIVE download_to_mirror(_, _, _, _, _, _, _)
RECURSIVE DownloadEach(_, _, _, _, _, _)

\* a download_to_mirror that skips whenever the local path exists, overwrite or not
download_to_mirror_no_overwrite(b, cb, st, key, overwrite, own, depth) ==
    IF depth > MaxDepth THEN [st EXCEPT !.raised = "RecursionError"]
    ELSE IF exists_in_mirror(st.local, key)
    THEN LET sk == update_current_callback_on_skipped_transfer(cb, b, st.local, key, TRUE, own)
         IN  [st EXCEPT !.calls = @ \o sk.calls, !.raised = sk.raised]
    ELSE LET mk == MkdirParents(st.local, LocalPath(key))
             f  == is_file_on_s3(b, key)
             s1 == [st EXCEPT !.local = mk.local]
         IN  IF mk.raised # "none" THEN [st EXCEPT !.raised = mk.raised]
             ELSE IF f.raised # "none" THEN [s1 EXCEPT !.raised = f.raised]
             ELSE IF f.ret THEN DownloadFile(b, cb, s1, key)
             ELSE DownloadEach(b, cb, s1, ObjectsFilter(b, key), overwrite, depth + 1)

download_to_mirror(b, cb, st, key, overwrite, own, depth) ==
    IF depth > MaxDepth THEN [st EXCEPT !.raised = "RecursionError"]
    ELSE IF ~overwrite /\ exists_in_mirror(st.local, key)
    THEN LET sk == update_current_callback_on_skipped_transfer(cb, b, st.local, key, TRUE, own)
         IN  [st EXCEPT !.calls = @ \o sk.calls, !.raised = sk.raised]
    ELSE LET mk == MkdirParents(st.local, LocalPath(key))
             f  == is_file_on_s3(b, key)
             s1 == [st EXCEPT !.local = mk.local]
         IN  IF mk.raised # "none" THEN [st EXCEPT !.raised = mk.raised]
             ELSE IF f.raised # "none" THEN [s1 EXCEPT !.raised = f.raised]
             ELSE IF f.ret THEN DownloadFile(b, cb, s1, key)
             ELSE DownloadEach(b, cb, s1, ObjectsFilter(b, key), overwrite, depth + 1)

DownloadEach(b, cb, st, keys, overwrite, depth) ==
    IF keys = <<>> \/ st.raised # "none" THEN st
    ELSE DownloadEach(b, cb,
                      download_to_mirror(b, cb, st, Head(keys), overwrite, FALSE, depth),
                      Tail(keys), overwrite, depth)

\* an upload_from_mirror that never skips
upload_from_mirror_always(b, cb, loc, key, overwrite, own) ==
    LET path == LocalPath(key)
    IN  IF path \notin DOMAIN loc
        THEN [bucket |-> b, calls |-> <<>>, uploads |-> <<>>, raised |-> "FileNotFoundError"]
        ELSE IF loc[path].kind = "dir"
        THEN [bucket |-> b, calls |-> <<>>, uploads |-> <<>>, raised |-> "OSError"]
        ELSE [bucket  |-> PutObject(b, key, [size |-> loc[path].size, ctype |-> FileType]),
              calls   |-> TransferCalls(cb, loc[path].size),
              uploads |-> <<key>>,
              raised  |-> "none"]

\* [bucket, calls, uploads, raised]
upload_from_mirror(b, cb, loc, key, overwrite, own) ==
    IF ~overwrite /\ exists_on_s3(b, key)
    THEN LET sk == update_current_callback_on_skipped_transfer(cb, b, loc, key, FALSE, own)
         IN  [bucket |-> b, calls |-> sk.calls, uploads |-> <<>>, raised |-> sk.raised]
    ELSE LET path == LocalPath(key)
         IN  IF path \notin DOMAIN loc
             THEN [bucket |-> b, calls |-> <<>>, uploads |-> <<>>, raised |-> "FileNotFoundError"]
             ELSE IF loc[path].kind = "dir"
             THEN [bucket |-> b, calls |-> <<>>, uploads |-> <<>>, raised |-> "OSError"]
             ELSE [bucket  |-> PutObject(b, key, [size |-> loc[path].size, ctype |-> FileType]),
                   calls   |-> TransferCalls(cb, loc[path].size),
                   uploads |-> <<key>>,
                   raised  |-> "none"]

----------------------------------------------------------------------------
(* States and operations *)

EmptyFn == [x \in {} |-> 0]

NoCallback == [kind |-> "none", objs |-> {}, seen |-> 0]

\* an object as the store holds it: a folder marker is a zero-byte object whose
\* content type depends on the tool that made it
ObjectsAt(k) ==
    IF EndsWithSlash(k)
    THEN {[size |-> 0, ctype |-> FileType], [size |-> 0, ctype |-> DirType]}
    ELSE {[size |-> Len(k), ctype |-> FileType]}

AllObjects == UNION {ObjectsAt(k) : k \in StoreKeys}

\* the buckets that hold at most n objects, at keys of K
Buckets(K, n) ==
    UNION {{b \in [S -> AllObjects] : \A k \in S : b[k] \in ObjectsAt(k)} :
           S \in {T \in SUBSET K : Cardinality(T) <= n}}

\* what an operation leaves in `last`
Record(op, key, overwrite, ret, raised, downloads, uploads, calls) ==
    [op |-> op, key |-> key, overwrite |-> overwrite,
     pre |-> bucket, preLocal |-> local, preCallback |-> callback,
     ret |-> ret, raised |-> raised,
     downloads |-> downloads, uploads |-> uploads, calls |-> calls]

NotResuming == [pc |-> "none"]
NoRequests == [event |-> "none"]

\* the specifications of the store, the transfers and the keys hold no MirrorPath
\* object and leave S3MPConfig as it is
NoMirrorPath == [s3_key |-> <<>>]
NoConfig == [default_bucket_key |-> <<>>]

NoOperation == Record("none", <<>>, FALSE, FALSE, "none", <<>>, <<>>, <<>>)

Init ==
    /\ bucket \in Buckets(StoreKeys, MaxStored)
    /\ local = EmptyFn
    /\ callback = NoCallback
    /\ last = NoOperation
    /\ ops = 0
    /\ mpus = <<>>
    /\ rs = NotResuming
    /\ mlog = NoRequests
    /\ mp = NoMirrorPath
    /\ config = NoConfig
    /\ other = EmptyFn

KeyExists(key) ==
    /\ last' = Record("key_exists_on_s3", key, FALSE, key_exists_on_s3(bucket, key),
                      "none", <<>>, <<>>, <<>>)
    /\ UNCHANGED <<bucket, local, callback, ops, mpus, rs, mlog, mp, config, other>>

KeyIsFile(key) ==
    LET r == key_is_file_on_s3(bucket, key)
    IN  /\ last' = Record("key_is_file_on_s3", key, FALSE, r.ret, r.raised, <<>>, <<>>, <<>>)
        /\ UNCHANGED <<bucket, local, callback, ops, mpus, rs, mlog, mp, config, other>>

ListChildKeys(key) ==
    /\ last' = Record("s3_list_child_keys", key, FALSE,
                      [keys     |-> s3_list_child_keys(bucket, key),
                       requests |-> ListChildRequests(bucket, key, 1)],
                      "none", <<>>, <<>>, <<>>)
    /\ UNCHANGED <<bucket, local, callback, ops, mpus, rs, mlog, mp, config, other>>

KeySize(key) ==
    LET r == key_size_on_s3(bucket, key)
    IN  /\ last' = Record("key_size_on_s3", key, FALSE, r.ret, r.raised, <<>>, <<>>, <<>>)
        /\ UNCHANGED <<bucket, local, callback, ops, mpus, rs, mlog, mp, config, other>>

DeleteKey(key) ==
    /\ bucket' = delete_key_on_s3(bucket, key)
    /\ last' = Record("delete_key_on_s3", key, FALSE, FALSE, "none", <<>>, <<>>, <<>>)
    /\ UNCHANGED <<local, callback, ops, mpus, rs, mlog, mp, config, other>>

MirrorDeleteS3(key) ==
    LET r == delete_s3(bucket, key)
    IN  /\ bucket' = r.bucket
        /\ last' = Record("delete_s3", key, FALSE, FALSE, r.raised, <<>>, <<>>, <<>>)
        /\ UNCHANGED <<local, callback, ops, mpus, rs, mlog, mp, config, other>>

Next ==
    \E key \in QueryKeys :
        \/ KeyExists(key)
        \/ KeyIsFile(key)
        \/ KeySize(key)
        \/ ListChildKeys(key)
        \/ DeleteKey(key)
        \/ MirrorDeleteS3(key)

Spec == Init /\ [][Next]_vars

----------------------------------------------------------------------------
(* The transfers of MirrorPath, on a mirror that already holds some files *)

MirrorStoreKeys == {K_f_, K_fa, K_fsc, K_f2}
MirrorKeys == {K_f, K_f_, K_fa, K_f2, K_fsc}
LocalFiles == {K_f, K_fa, K_f2}
TrackedSets == {{}, {K_fa}, {K_fa, K_f2}}

\* the mirrors that hold at most n files, each below its directories
Mirrors(F, n) ==
    UNION {{m \in [S \cup UNION {Ancestors(p) : p \in S} ->
                      [kind : {"file", "dir"}, size : 0..MaxLocalSize]] :
              \A p \in DOMAIN m :
                 IF p \in S THEN m[p].kind = "file" /\ m[p].size >= 1
                 ELSE m[p] = [kind |-> "dir", size |-> 0]} :
           S \in {T \in SUBSET F : /\ Cardinality(T) <= n
                                    /\ \A p \in T : Ancestors(p) \cap T = {}}}

Callbacks ==
    {NoCallback, [kind |-> "tqdm", objs |-> {}, seen |-> 0]}
    \cup {[kind |-> "tracking", objs |-> o, seen |-> 0] : o \in TrackedSets}

InitMirror ==
    /\ bucket \in Buckets(MirrorStoreKeys, MaxStored)
    /\ local \in Mirrors(LocalFiles, MaxLocal)
    /\ callback \in Callbacks
    /\ last = NoOperation
    /\ ops = 0
    /\ mpus = <<>>
    /\ rs = NotResuming
    /\ mlog = NoRequests
    /\ mp = NoMirrorPath
    /\ config = NoConfig
    /\ other = EmptyFn

DownloadToMirror(key, overwrite) ==
    LET st == [local |-> local, calls |-> <<>>, downloads |-> <<>>, raised |-> "none"]
        r  == download_to_mirror(bucket, callback, st, key, overwrite, TRUE, 1)
    IN  /\ ops < MaxOps
        /\ ops' = ops + 1
        /\ local' = r.local
        /\ callback' = Advance(callback, r.calls)
        /\ last' = Record("download_to_mirror", key, overwrite, FALSE, r.raised,
                          r.downloads, <<>>, r.calls)
        /\ UNCHANGED <<bucket, mpus, rs, mlog, mp, config, other>>

UploadFromMirror(key, overwrite) ==
    LET r == upload_from_mirror(bucket, callback, local, key, overwrite, TRUE)
    IN  /\ ops < MaxOps
        /\ ops' = ops + 1
        /\ bucket' = r.bucket
        /\ callback' = Advance(callback, r.calls)
        /\ last' = Record("upload_from_mirror", key, overwrite, FALSE, r.raised,
                          <<>>, r.uploads, r.calls)
        /\ UNCHANGED <<local, mpus, rs, mlog, mp, config, other>>

NextMirror ==
    \E key \in MirrorKeys, overwrite \in BOOLEAN :
        \/ DownloadToMirror(key, overwrite)
        \/ UploadFromMirror(key, overwrite)

SpecMirror == InitMirror /\ [][NextMirror]_vars

----------------------------------------------------------------------------
(* Properties of the query layer and of the transfers *)

\* the key as a folder prefix: with exactly one trailing "/"
AsFolder(key) == IF EndsWithSlash(key) THEN key ELSE Append(key, SLASH)

\* k lies beneath the folder that key names
Beneath(k, key) == StartsWith(k, AsFolder(key)) /\ k # AsFolder(key)

\* key names a folder of store b: something is stored beneath it, or its marker is
IsFolderOn(b, key) == \E k \in DOMAIN b : StartsWith(k, AsFolder(key))

\* key exists on store b neither as an object nor as a folder
AbsentOn(b, key) == key \notin DOMAIN b /\ ~IsFolderOn(b, key)

\* C1: after delete_key_on_s3 on a folder key (one ending in "/") no stored key
\* beneath that folder remains, at any nesting depth.
C1_FolderDeleteRemovesAll ==
    (last.op = "delete_key_on_s3" /\ EndsWithSlash(last.key))
        => \A k \in DOMAIN bucket : ~Beneath(k, last.key)

\* C2: deleting a folder (delete_key_on_s3, MirrorPath.delete_s3), the key given with
\* or without a trailing "/", leaves every stored key that is neither the key nor
\* beneath it as it was.
C2_DeleteLeavesOthers ==
    (/\ last.op \in {"delete_key_on_s3", "delete_s3"}
     /\ IsFolderOn(last.pre, last.key))
        => \A k \in DOMAIN last.pre :
              (k # last.key /\ k # AsFolder(last.key) /\ ~Beneath(k, last.key))
                  => (k \in DOMAIN bucket /\ bucket[k] = last.pre[k])

\* C9 (as stated): key_is_file_on_s3 raises for a key that does not exist at all.
C9_AbsentKeyRaises ==
    (last.op = "key_is_file_on_s3" /\ AbsentOn(last.pre, last.key))
        => last.raised # "none"

\* C9 (amended): for a key that does not exist at all, neither as an object nor as
\* a folder, key_is_file_on_s3 raises nothing and answers false.
C9_AbsentKeyIsNotFile ==
    (last.op = "key_is_file_on_s3" /\ AbsentOn(last.pre, last.key))
        => (last.raised = "none" /\ last.ret = FALSE)

C9_Witness ==
    /\ last.op = "key_is_file_on_s3"
    /\ AbsentOn(last.pre, last.key)
    /\ last.pre # EmptyFn
    /\ last.ret = FALSE

\* C10: key_is_file_on_s3 answers true for every stored file key and false for every
\* folder key, with or without the trailing "/", marker objects and marker-only
\* folders included.
C10_FilesAndFolders ==
    (last.op = "key_is_file_on_s3" /\ last.raised = "none")
        => /\ (last.key \in DOMAIN last.pre /\ ~EndsWithSlash(last.key)) => last.ret = TRUE
           /\ (IsFolderOn(last.pre, last.key)
                 /\ ~(last.key \in DOMAIN last.pre /\ ~EndsWithSlash(last.key)))
                 => last.ret = FALSE

\* key is stored on b as an object that MirrorPath takes for a file
IsRemoteFile(b, key) == key \in DOMAIN b /\ b[key].ctype # DirType

Skipped == ~last.overwrite /\ exists_in_mirror(last.preLocal, last.key)

\* C6 (as stated): for a key that is a file on the store, download_to_mirror issues a
\* download request iff overwrite is set or the local path does not exist; when it
\* is skipped, nothing is requested and the local mirror is unchanged.
C6_DownloadIffNeeded ==
    (last.op = "download_to_mirror" /\ IsRemoteFile(last.pre, last.key))
        => /\ (last.downloads # <<>>) <=> ~Skipped
           /\ Skipped => (last.downloads = <<>> /\ local = last.preLocal)

\* C6 (amended): as C6, where creating the local parent directories succeeds; where
\* it raises, nothing is requested.
C6_DownloadIffNeededOrMkdirFails ==
    (last.op = "download_to_mirror" /\ IsRemoteFile(last.pre, last.key))
        => LET mkdirFails == MkdirParents(last.preLocal, LocalPath(last.key)).raised # "none"
           IN  /\ (last.downloads = <<last.key>>) <=> (~Skipped /\ ~mkdirFails)
               /\ (last.downloads = <<>>) <=> (Skipped \/ mkdirFails)
               /\ Skipped => local = last.preLocal

C6_Witness ==
    /\ last.op = "download_to_mirror"
    /\ IsRemoteFile(last.pre, last.key)
    /\ Skipped
    /\ last.downloads = <<>>
    /\ last.pre[last.key].size # last.preLocal[LocalPath(last.key)].size

\* C7: a skipped download_to_mirror(overwrite=False) under a callback that tracks the
\* MirrorPath advances the callback once, by the local file's size, whatever the
\* store holds; with no callback, or an untracked MirrorPath, it advances nothing.
C7_SkipCreditsLocalSize ==
    (last.op = "download_to_mirror" /\ Skipped
       /\ last.preLocal[LocalPath(last.key)].kind = "file")
        => IF last.preCallback.kind = "tracking" /\ last.key \in last.preCallback.objs
           THEN last.calls = <<last.preLocal[LocalPath(last.key)].size>>
           ELSE last.calls = <<>>

\* C8: upload_from_mirror that returns normally leaves an object stored at exactly
\* s3_key; it skips only when one is stored there already, and with overwrite it
\* always uploads.
C8_UploadStoresKey ==
    (last.op = "upload_from_mirror" /\ last.raised = "none")
        => /\ last.key \in DOMAIN bucket
           /\ last.uploads = <<>> => (~last.overwrite /\ last.key \in DOMAIN last.pre)
           /\ last.overwrite => last.uploads = <<last.key>>

----------------------------------------------------------------------------
(* multipart_uploads.py.  Sizes are counted in units of half a megabyte, so that *)
(* a difference of exactly one megabyte and the differences next to it occur.    *)

MB == 2             \* s3transfer.constants.MB, in units of half a megabyte

MaxFileSize == 5    \* size of the local file
MaxPartSize == 2    \* part size of the upload that was interrupted
MaxUploads == 1     \* open multipart uploads at start
MaxThreads == 2     \* max_threads of resume_multipart_upload

MpuKey == K_fa      \* the key of the MirrorPath that is resumed
OtherKey == K_f2    \* another key with uploads of its own

Abs(x) == IF x < 0 THEN -x ELSE x

CeilDiv(a, b) == (a + b - 1) \div b

RECURSIVE SortNat(_)
SortNat(S) == IF S = {} THEN <<>> ELSE <<Min(S)>> \o SortNat(S \ {Min(S)})

\* bytes of part p of a file of `total` bytes cut into parts of `size` bytes
PartLen(size, total, p) ==
    LET left == total - (p - 1) * size
    IN  IF left <= 0 THEN 0 ELSE IF left < size THEN left ELSE size

\* ETag of the bytes [off, off + len) of the file; src tells the interrupted
\* session's uploads from this session's
ETag(src, off, len) == [src |-> src, off |-> off, len |-> len]

\* the parts a session left behind that cut a file of `total` bytes into parts of
\* `size` bytes and got the parts S through
PartsLeft(size, total, S) ==
    [p \in S |-> [etag |-> ETag("old", (p - 1) * size, PartLen(size, total, p)),
                  size |-> PartLen(size, total, p)]]

PartsChoices ==
    UNION {{PartsLeft(size, total, S) : S \in SUBSET (1..CeilDiv(total, size))} :
           size \in MB..MaxPartSize, total \in 1..MaxFileSize}

\* get_mpu: [found, mpus, aborted]; found = 0 stands for None
RECURSIVE GetMpuFrom(_, _, _, _)
GetMpuFrom(ms, key, i, aborted) ==
    IF i > Len(ms) THEN [found |-> 0, aborted |-> aborted]
    ELSE IF ms[i].key = key
    THEN IF DOMAIN ms[i].parts # {}
         THEN [found |-> ms[i].id, aborted |-> aborted]
         ELSE GetMpuFrom(ms, key, i + 1, aborted \cup {ms[i].id})
    ELSE GetMpuFrom(ms, key, i + 1, aborted)

get_mpu(ms, key) ==
    LET r == GetMpuFrom(ms, key, 1, {})
        Open(m) == m.id \notin r.aborted
    IN  [found |-> r.found, mpus |-> SelectSeq(ms, Open), aborted |-> r.aborted]

UploadById(ms, id) == CHOOSE m \in {ms[i] : i \in 1..Len(ms)} : m.id = id

\* part.upload: part p of upload id now holds the body sent
UploadPart(ms, id, p, body) ==
    [i \in 1..Len(ms) |->
        IF ms[i].id # id THEN ms[i]
        ELSE [ms[i] EXCEPT !.parts =
                [q \in DOMAIN ms[i].parts \cup {p} |->
                    IF q = p THEN [etag |-> ETag("new", body.off, body.len), size |-> body.len]
                    ELSE ms[i].parts[q]]]]

\* the store accepts a completion request whose parts are listed in ascending
\* order, each one uploaded and named by its ETag
CompleteAccepted(parts, request) ==
    /\ request # <<>>
    /\ \A i \in 1..(Len(request) - 1) : request[i].PartNumber < request[i + 1].PartNumber
    /\ \A i \in 1..Len(request) :
          /\ request[i].PartNumber \in DOMAIN parts
          /\ parts[request[i].PartNumber].etag = request[i].ETag

RECURSIVE CompletedSize(_, _)
CompletedSize(parts, request) ==
    IF request = <<>> THEN 0
    ELSE parts[Head(request).PartNumber].size + CompletedSize(parts, Tail(request))

\* a comparison that misses a completed object larger than the local file
SizeMismatchSigned(total_size_bytes, content_length) ==
    total_size_bytes - content_length > MB

\* line 81: the completed object does not match the local file
SizeMismatch(total_size_bytes, content_length) ==
    Abs(total_size_bytes - content_length) > MB

\* rs before the first statement of resume_multipart_upload
Starting(max_threads) ==
    [pc |-> "start", max_threads |-> max_threads, mpu |-> 0,
     total_size_bytes |-> 0, n_uploaded_parts |-> 0, part_size |-> 0, n_total_parts |-> 0,
     Parts |-> <<>>, uploaded_parts |-> <<>>, bodies |-> <<>>, futures |-> <<>>, next |-> 1]

\* lines 30-67: find the upload; without one fall back to the plain upload, with one
\* read its parts, credit the callback and submit the parts still to upload
ResumeStart ==
    /\ rs.pc = "start"
    /\ LET g == get_mpu(mpus, MpuKey)
       IN  IF g.found = 0
           THEN LET r == upload_from_mirror(bucket, callback, local, MpuKey, FALSE, TRUE)
                IN  /\ mpus' = g.mpus
                    /\ bucket' = r.bucket
                    /\ callback' = Advance(callback, r.calls)
                    /\ rs' = [rs EXCEPT !.pc = IF r.raised = "none" THEN "done" ELSE "raised"]
                    /\ mlog' = [mlog EXCEPT !.event = "fallback", !.uploads = r.uploads,
                                            !.aborted = @ \cup g.aborted,
                                            !.calls = @ \o r.calls]
           ELSE LET parts   == UploadById(g.mpus, g.found).parts
                    numbers == SortNat(DOMAIN parts)
                    total_size_bytes == local[LocalPath(MpuKey)].size
                    n_uploaded_parts == Len(numbers)
                    part_size == Max({parts[p].size : p \in DOMAIN parts})
                    n_total_parts == CeilDiv(total_size_bytes, part_size)
                    verified == \A i \in 1..(n_uploaded_parts - 1) :
                                    parts[numbers[i]].size = part_size
                    n_new == IF n_total_parts > n_uploaded_parts
                             THEN n_total_parts - n_uploaded_parts ELSE 0
                    seek == part_size * n_uploaded_parts
                    credit == IF callback.kind = "none" THEN <<>> ELSE <<seek>>
                IN  /\ mpus' = g.mpus
                    /\ bucket' = bucket
                    /\ IF ~verified
                       THEN /\ callback' = callback
                            /\ rs' = [rs EXCEPT !.pc = "raised", !.mpu = g.found]
                            /\ mlog' = [mlog EXCEPT !.event = "assertion",
                                                    !.aborted = @ \cup g.aborted]
                       ELSE /\ callback' = Advance(callback, credit)
                            /\ rs' = [rs EXCEPT
                                 !.pc = "collect", !.mpu = g.found,
                                 !.total_size_bytes = total_size_bytes,
                                 !.n_uploaded_parts = n_uploaded_parts,
                                 !.part_size = part_size,
                                 !.n_total_parts = n_total_parts,
                                 !.Parts = [i \in 1..n_uploaded_parts |->
                                              [ETag |-> parts[numbers[i]].etag,
                                               PartNumber |-> numbers[i]]],
                                 !.uploaded_parts = [i \in 1..n_new |-> n_uploaded_parts + i],
                                 !.bodies = [i \in 1..n_new |->
                                               [off |-> seek + (i - 1) * part_size,
                                                len |-> PartLen(part_size, total_size_bytes,
                                                                n_uploaded_parts + i)]],
                                 !.futures = [i \in 1..n_new |-> [state |-> "pending"]],
                                 !.next = 1]
                            /\ mlog' = [mlog EXCEPT !.event = "submitted",
                                                    !.present = DOMAIN parts,
                                                    !.total = total_size_bytes,
                                                    !.part_size = part_size,
                                                    !.assigned = [i \in 1..n_new |->
                                                        [PartNumber |-> n_uploaded_parts + i,
                                                         off |-> seek + (i - 1) * part_size,
                                                         len |-> PartLen(part_size, total_size_bytes,
                                                                         n_uploaded_parts + i)]],
                                                    !.aborted = @ \cup g.aborted,
                                                    !.finished = <<>>,
                                                    !.calls = @ \o credit]
    /\ UNCHANGED <<local, last, ops, mp, config, other>>

\* the executor runs the submitted uploads first come, first served, on at most
\* max_threads workers: upload i runs once fewer than max_threads earlier ones do
Running(i) ==
    /\ rs.futures[i].state = "pending"
    /\ Cardinality({j \in 1..(i - 1) : rs.futures[j].state = "pending"}) < rs.max_threads

\* a worker's part.upload returns
PartUploadReturns(i) ==
    /\ rs.pc \in {"collect", "raising"}
    /\ i \in 1..Len(rs.futures)
    /\ Running(i)
    /\ mpus' = UploadPart(mpus, rs.mpu, rs.uploaded_parts[i], rs.bodies[i])
    /\ rs' = [rs EXCEPT !.futures[i] =
                [state |-> "done",
                 result |-> [ETag |-> ETag("new", rs.bodies[i].off, rs.bodies[i].len)]]]
    /\ mlog' = [mlog EXCEPT !.event = "part", !.finished = Append(@, rs.uploaded_parts[i])]
    /\ UNCHANGED <<bucket, local, callback, last, ops, mp, config, other>>

\* a worker's part.upload raises: the store is unchanged
PartUploadRaises(i) ==
    /\ rs.pc \in {"collect", "raising"}
    /\ i \in 1..Len(rs.futures)
    /\ Running(i)
    /\ rs' = [rs EXCEPT !.futures[i] = [state |-> "failed"]]
    /\ mlog' = [mlog EXCEPT !.event = "part_failed"]
    /\ UNCHANGED <<bucket, local, callback, last, ops, mpus, mp, config, other>>

\* a collection that steps over an upload that failed instead of raising
CollectIgnoringFailures ==
    /\ rs.pc = "collect"
    /\ rs.next <= Len(rs.futures)
    /\ rs.futures[rs.next].state # "pending"
    /\ IF rs.futures[rs.next].state = "failed"
       THEN /\ rs' = [rs EXCEPT !.next = @ + 1]
            /\ mlog' = [mlog EXCEPT !.event = "collect"]
            /\ callback' = callback
       ELSE LET credit == IF callback.kind = "none" THEN <<>> ELSE <<rs.part_size>>
            IN  /\ rs' = [rs EXCEPT
                     !.Parts = Append(@, [ETag |-> rs.futures[rs.next].result.ETag,
                                          PartNumber |-> rs.uploaded_parts[rs.next]]),
                     !.next = @ + 1]
                /\ mlog' = [mlog EXCEPT !.event = "collect", !.calls = @ \o credit]
                /\ callback' = Advance(callback, credit)
    /\ UNCHANGED <<bucket, local, last, ops, mpus, mp, config, other>>

\* lines 68-76: the main thread takes the next future's result, in submission order
Collect ==
    /\ rs.pc = "collect"
    /\ rs.next <= Len(rs.futures)
    /\ rs.futures[rs.next].state # "pending"
    /\ IF rs.futures[rs.next].state = "failed"
       THEN /\ rs' = [rs EXCEPT !.pc = "raising"]
            /\ mlog' = [mlog EXCEPT !.event = "raising"]
            /\ callback' = callback
       ELSE LET credit == IF callback.kind = "none" THEN <<>> ELSE <<rs.part_size>>
            IN  /\ rs' = [rs EXCEPT
                     !.Parts = Append(@, [ETag |-> rs.futures[rs.next].result.ETag,
                                          PartNumber |-> rs.uploaded_parts[rs.next]]),
                     !.next = @ + 1]
                /\ mlog' = [mlog EXCEPT !.event = "collect", !.calls = @ \o credit]
                /\ callback' = Advance(callback, credit)
    /\ UNCHANGED <<bucket, local, last, ops, mpus, mp, config, other>>

\* leaving the executor's with-block on an exception waits for the uploads still running
Raise ==
    /\ rs.pc = "raising"
    /\ \A i \in 1..Len(rs.futures) : rs.futures[i].state # "pending"
    /\ rs' = [rs EXCEPT !.pc = "raised"]
    /\ mlog' = [mlog EXCEPT !.event = "raised"]
    /\ UNCHANGED <<bucket, local, callback, last, ops, mpus, mp, config, other>>

\* a completion after which the store still lists the upload when the sizes do not match
CompleteLeavingOpen ==
    /\ rs.pc = "collect"
    /\ rs.next > Len(rs.futures)
    /\ LET parts == UploadById(mpus, rs.mpu).parts
           StaysOpen(m) == m.id # rs.mpu
       IN  IF ~CompleteAccepted(parts, rs.Parts)
           THEN /\ rs' = [rs EXCEPT !.pc = "raised"]
                /\ mlog' = [mlog EXCEPT !.event = "complete_rejected", !.request = rs.Parts]
                /\ UNCHANGED <<bucket, mpus, mp, config, other>>
           ELSE LET content_length == CompletedSize(parts, rs.Parts)
                    obj == [size |-> content_length, ctype |-> FileType]
                    mismatch == SizeMismatch(rs.total_size_bytes, content_length)
                IN  /\ mpus' = IF mismatch THEN mpus ELSE SelectSeq(mpus, StaysOpen)
                    /\ bucket' = IF mismatch THEN DeleteObject(PutObject(bucket, MpuKey, obj), MpuKey)
                                 ELSE PutObject(bucket, MpuKey, obj)
                    /\ rs' = IF mismatch THEN Starting(rs.max_threads)
                             ELSE [rs EXCEPT !.pc = "done"]
                    /\ mlog' = [mlog EXCEPT !.event = "complete", !.request = rs.Parts,
                                            !.content_length = content_length,
                                            !.deleted = mismatch,
                                            !.restarts = IF mismatch THEN @ + 1 ELSE @]
    /\ UNCHANGED <<local, callback, last, ops, mp, config, other>>

\* lines 78-86: complete the upload, compare the sizes, delete and start over on a mismatch
Complete ==
    /\ rs.pc = "collect"
    /\ rs.next > Len(rs.futures)
    /\ LET parts == UploadById(mpus, rs.mpu).parts
           StaysOpen(m) == m.id # rs.mpu
       IN  IF ~CompleteAccepted(parts, rs.Parts)
           THEN /\ rs' = [rs EXCEPT !.pc = "raised"]
                /\ mlog' = [mlog EXCEPT !.event = "complete_rejected", !.request = rs.Parts]
                /\ UNCHANGED <<bucket, mpus, mp, config, other>>
           ELSE LET content_length == CompletedSize(parts, rs.Parts)
                    obj == [size |-> content_length, ctype |-> FileType]
                    mismatch == SizeMismatch(rs.total_size_bytes, content_length)
                IN  /\ mpus' = SelectSeq(mpus, StaysOpen)
                    /\ bucket' = IF mismatch THEN DeleteObject(PutObject(bucket, MpuKey, obj), MpuKey)
                                 ELSE PutObject(bucket, MpuKey, obj)
                    /\ rs' = IF mismatch THEN Starting(rs.max_threads)
                             ELSE [rs EXCEPT !.pc = "done"]
                    /\ mlog' = [mlog EXCEPT !.event = "complete", !.request = rs.Parts,
                                            !.content_length = content_length,
                                            !.deleted = mismatch,
                                            !.restarts = IF mismatch THEN @ + 1 ELSE @]
    /\ UNCHANGED <<local, callback, last, ops, mp, config, other>>

\* the interrupted upload of the MirrorPath's file, and the other uploads that
\* may be open beside it: abandoned ones without parts, and ones with a first part
Uploads == {[key |-> MpuKey, parts |-> ps] : ps \in PartsChoices}

OtherUploads ==
    {[key |-> key, parts |-> ps] :
        key \in {MpuKey, OtherKey}, ps \in {EmptyFn, PartsLeft(MB, MB, {1})}}

NothingAsked ==
    [event |-> "none", request |-> <<>>, content_length |-> 0, total |-> 0, part_size |-> 0,
     deleted |-> FALSE, restarts |-> 0, uploads |-> <<>>, aborted |-> {}, present |-> {},
     assigned |-> <<>>, finished |-> <<>>, calls |-> <<>>]

InitMPU ==
    /\ \E n \in 0..MaxUploads :
         \E us \in [1..n -> Uploads \cup OtherUploads] :
            /\ Cardinality({i \in 1..n : us[i] \notin OtherUploads}) <= 1
            /\ mpus = [i \in 1..n |-> [id |-> i, key |-> us[i].key, parts |-> us[i].parts]]
    /\ \E size \in 1..MaxFileSize :
         local = WriteFile(MkdirParents(EmptyFn, LocalPath(MpuKey)).local, LocalPath(MpuKey), size)
    /\ bucket \in Buckets({MpuKey}, 1)
    /\ callback \in {NoCallback, [kind |-> "tracking", objs |-> {MpuKey}, seen |-> 0]}
    /\ \E max_threads \in 1..MaxThreads : rs = Starting(max_threads)
    /\ mlog = NothingAsked
    /\ mp = NoMirrorPath
    /\ config = NoConfig
    /\ other = EmptyFn
    /\ last = NoOperation
    /\ ops = 0

NextMPU ==
    \/ ResumeStart
    \/ \E i \in 1..MaxFileSize : PartUploadReturns(i)
    \/ \E i \in 1..MaxFileSize : PartUploadRaises(i)
    \/ Collect
    \/ Raise
    \/ Complete

SpecMPU == InitMPU /\ [][NextMPU]_vars

----------------------------------------------------------------------------
(* get_mpu on its own, over the lists of open uploads the bucket may report *)

MaxListed == 3      \* open multipart uploads the bucket lists

UploadLists ==
    UNION {[1..n -> OtherUploads] : n \in 0..MaxListed}

InitGetMpu ==
    /\ \E us \in UploadLists :
         mpus = [i \in 1..Len(us) |-> [id |-> i, key |-> us[i].key, parts |-> us[i].parts]]
    /\ bucket = EmptyFn
    /\ local = EmptyFn
    /\ callback = NoCallback
    /\ last = NoOperation
    /\ ops = 0
    /\ rs = NotResuming
    /\ mlog = NoRequests
    /\ mp = NoMirrorPath
    /\ config = NoConfig
    /\ other = EmptyFn

GetMpu(key) ==
    LET r == get_mpu(mpus, key)
    IN  /\ mpus' = r.mpus
        /\ last' = Record("get_mpu", key, FALSE,
                          [found |-> r.found, aborted |-> r.aborted, before |-> mpus],
                          "none", <<>>, <<>>, <<>>)
        /\ UNCHANGED <<bucket, local, callback, ops, rs, mlog, mp, config, other>>

NextGetMpu == \E key \in {MpuKey, OtherKey} : GetMpu(key)

SpecGetMpu == InitGetMpu /\ [][NextGetMpu]_vars

----------------------------------------------------------------------------
(* Properties of resume_multipart_upload *)

\* the completion request has been sent (the store may have refused it)
Requested == mlog.event \in {"complete", "complete_rejected"}

RequestNumbers == [i \in 1..Len(mlog.request) |-> mlog.request[i].PartNumber]

ToSet(q) == {q[i] : i \in 1..Len(q)}

\* C3: the completion request lists every part number 1..N, N = ceil(file size /
\* part size), exactly once, whatever parts the open upload held; the parts uploaded
\* are exactly the numbers that were not held.
C3_CompletionListExact ==
    Requested =>
        LET N == CeilDiv(mlog.total, mlog.part_size)
        IN  /\ Len(mlog.request) = N
            /\ ToSet(RequestNumbers) = 1..N
            /\ ToSet(mlog.finished) = (1..N) \ mlog.present
            /\ Len(mlog.finished) = Cardinality((1..N) \ mlog.present)

\* C4: the completion request is in ascending part-number order and gives each part
\* uploaded in this call the ETag of the bytes read for it at submission, whatever
\* order the workers finish in.
C4_AscendingAndPaired ==
    Requested =>
        LET old == Len(mlog.request) - Len(mlog.assigned)
        IN  /\ \A i \in 1..(Len(mlog.request) - 1) :
                  mlog.request[i].PartNumber < mlog.request[i + 1].PartNumber
            /\ \A i \in 1..Len(mlog.assigned) :
                  /\ mlog.request[old + i].PartNumber = mlog.assigned[i].PartNumber
                  /\ mlog.request[old + i].ETag =
                        ETag("new", mlog.assigned[i].off, mlog.assigned[i].len)

\* C5: after a completion, a completed object more than 1 MB off the local file's
\* size is deleted and the resume starts over at get_mpu; one within 1 MB stays and
\* the resume is over.
C5_MismatchRestarts ==
    mlog.event = "complete" =>
        IF mlog.total - mlog.content_length > MB \/ mlog.content_length - mlog.total > MB
        THEN /\ MpuKey \notin DOMAIN bucket
             /\ mlog.deleted
             /\ rs.pc = "start"
             /\ ENABLED ResumeStart
        ELSE /\ MpuKey \in DOMAIN bucket
             /\ bucket[MpuKey].size = mlog.content_length
             /\ ~mlog.deleted
             /\ rs.pc = "done"
             /\ ~ENABLED ResumeStart

C5_Witness ==
    /\ mlog.event = "complete"
    /\ mlog.content_length - mlog.total > MB
    /\ rs.pc = "start"

----------------------------------------------------------------------------
(* keys.py: key segments.  A name is a sequence of characters as a key is; None  *)
(* is the one-element sequence <<"None">>, which no string of characters equals. *)

MaxSegs == 3        \* segments in a list handed to the functions of keys.py
MaxSegDepth == 2    \* deepest depth of a segment

None == <<"None">>

SegNames == {<<"f">>, <<"a">>}

\* KeySegment(depth, name, is_file, incomplete_name)
KeySegment(depth, name, is_file, incomplete_name) ==
    [depth |-> depth, name |-> name, is_file |-> is_file, incomplete_name |-> incomplete_name]

\* str.split("/")
RECURSIVE Split(_)
Split(k) ==
    IF SlashAfter(k, 0) = {} THEN <<k>>
    ELSE LET i == Min(SlashAfter(k, 0))
         IN  <<SubSeq(k, 1, i - 1)>> \o Split(SubSeq(k, i + 1, Len(k)))

\* "/".join(names) for names that are all strings
RECURSIVE Join(_)
Join(names) ==
    IF names = <<>> THEN <<>>
    ELSE IF Len(names) = 1 THEN names[1]
    ELSE names[1] \o <<SLASH>> \o Join(Tail(names))

\* sorted(segments, key=lambda x: x.depth): stable, ascending
RECURSIVE SortedFrom(_, _)
SortedFrom(segments, d) ==
    LET AtDepth(seg) == seg.depth = d
        Deeper(seg)  == seg.depth > d
    IN  IF segments = <<>> THEN <<>>
        ELSE SelectSeq(segments, AtDepth) \o SortedFrom(SelectSeq(segments, Deeper), d + 1)

\* a sort that leaves the list as it was given
Unsorted(segments) == segments

Sorted(segments) == SortedFrom(segments, 0)

\* [path, depth, raised]
build_s3_key(segments) ==
    IF segments = <<>> THEN [path |-> <<>>, depth |-> 0, raised |-> "IndexError"]
    ELSE LET sorted == Sorted(segments)
             last_depth == sorted[Len(sorted)].depth
             empty_depths == {d \in 0..last_depth :
                                 \A i \in 1..Len(sorted) : sorted[i].depth # d}
             depth == IF empty_depths # {} THEN Min(empty_depths) ELSE last_depth + 1
             upto  == IF depth < Len(sorted) THEN depth ELSE Len(sorted)
             names == [i \in 1..upto |-> sorted[i].name]
         IN  IF \E i \in 1..upto : names[i] = None
             THEN [path |-> <<>>, depth |-> depth, raised |-> "TypeError"]
             ELSE [path |-> Join(names), depth |-> depth, raised |-> "none"]

\* lines 74-78: the loop over the sorted segments, on [ks, raised]
RECURSIVE ReplaceEach(_, _, _)
ReplaceEach(st, segments, og_key_len) ==
    IF segments = <<>> \/ st.raised # "none" THEN st
    ELSE LET segment   == Head(segments)
             new_depth == segment.depth + og_key_len - 1
             grown     == IF new_depth >= Len(st.ks) THEN Append(st.ks, <<>>) ELSE st.ks
         IN  IF segment.depth >= Len(grown)
             THEN [st EXCEPT !.raised = "IndexError"]
             ELSE ReplaceEach([st EXCEPT !.ks = [grown EXCEPT ![segment.depth + 1] = segment.name]],
                              Tail(segments), og_key_len)

\* lines 81-82: while key_segments[-1] == "": key_segments.pop()
RECURSIVE PopEmpty(_)
PopEmpty(st) ==
    IF st.raised # "none" THEN st
    ELSE IF st.ks = <<>> THEN [st EXCEPT !.raised = "IndexError"]
    ELSE IF st.ks[Len(st.ks)] = <<>> THEN PopEmpty([st EXCEPT !.ks = SubSeq(@, 1, Len(@) - 1)])
    ELSE st

\* lines 84-85: while (ret[-2] == "/") and (ret[-1] == "/"): ret = ret[:-1]
RECURSIVE DropDoubleSlash(_)
DropDoubleSlash(ret) ==
    IF Len(ret) < 2 THEN [ret |-> ret, raised |-> "IndexError"]
    ELSE IF ret[Len(ret) - 1] = SLASH /\ ret[Len(ret)] = SLASH
    THEN DropDoubleSlash(SubSeq(ret, 1, Len(ret) - 1))
    ELSE [ret |-> ret, raised |-> "none"]

\* replace_key_segments(key, segments) with max_len = None: [ret, raised]
replace_key_segments(key, segments) ==
    LET key_segments == Split(key)
        st == PopEmpty(ReplaceEach([ks |-> key_segments, raised |-> "none"],
                                   Sorted(segments), Len(key_segments)))
    IN  IF st.raised # "none" THEN [ret |-> <<>>, raised |-> st.raised]
        ELSE IF \E i \in 1..Len(st.ks) : st.ks[i] = None
        THEN [ret |-> <<>>, raised |-> "TypeError"]
        ELSE DropDoubleSlash(Join(st.ks))

\* the keys replace_key_segments is called with: "", "f", "fa", "/f", "f/a", "f/a/",
\* "f//a", "f/a/f"
KeyInputs ==
    {<<>>, K_f, <<"f", "a">>, <<"/", "f">>, K_fa, K_fa_,
     <<"f", "/", "/", "a">>, <<"f", "/", "a", "/", "f">>}

\* folder segments, named or not, at the depths in use
KeySegs == {KeySegment(d, n, FALSE, None) : d \in 0..MaxSegDepth, n \in SegNames \cup {None}}

SegLists == UNION {[1..n -> KeySegs] : n \in 0..MaxSegs}

\* the functions of keys.py are pure: a run is one call, and for
\* replace_key_segments a second call on the result of the first
InitKeys ==
    /\ bucket = EmptyFn
    /\ local = EmptyFn
    /\ callback = NoCallback
    /\ last = NoOperation
    /\ ops = 0
    /\ mpus = <<>>
    /\ rs = NotResuming
    /\ mlog = NoRequests
    /\ mp = NoMirrorPath
    /\ config = NoConfig
    /\ other = EmptyFn

BuildS3Key(segments) ==
    LET r == build_s3_key(segments)
    IN  /\ last.op = "none"
        /\ last' = Record("build_s3_key", <<>>, FALSE,
                          [segments |-> segments, path |-> r.path, depth |-> r.depth],
                          r.raised, <<>>, <<>>, <<>>)
        /\ UNCHANGED <<bucket, local, callback, ops, mpus, rs, mlog, mp, config, other>>

ReplaceKeySegments(key, segments) ==
    LET r == replace_key_segments(key, segments)
    IN  /\ last.op = "none"
        /\ last' = Record("replace_key_segments", key, FALSE,
                          [segments |-> segments, key |-> r.ret, again |-> FALSE],
                          r.raised, <<>>, <<>>, <<>>)
        /\ UNCHANGED <<bucket, local, callback, ops, mpus, rs, mlog, mp, config, other>>

\* the caller hands the key it got back to replace_key_segments, with the same segments
ReplaceAgain ==
    /\ last.op = "replace_key_segments"
    /\ last.raised = "none"
    /\ ~last.ret.again
    /\ LET r == replace_key_segments(last.ret.key, last.ret.segments)
       IN  last' = Record("replace_key_segments", last.ret.key, FALSE,
                          [segments |-> last.ret.segments, key |-> r.ret, again |-> TRUE],
                          r.raised, <<>>, <<>>, <<>>)
    /\ UNCHANGED <<bucket, local, callback, ops, mpus, rs, mlog, mp, config, other>>

NextKeys ==
    \/ /\ last.op = "none"
       /\ \E segments \in SegLists : BuildS3Key(segments)
    \/ /\ last.op = "none"
       /\ \E key \in KeyInputs, segments \in SegLists : ReplaceKeySegments(key, segments)
    \/ ReplaceAgain

SpecKeys == InitKeys /\ [][NextKeys]_vars

----------------------------------------------------------------------------
(* prefix_queries.py and the matching of key segments against the bucket *)

\* str.replace(old, ""): every occurrence of old, left to right, is dropped
RECURSIVE Remove(_, _)
Remove(str, old) ==
    IF old = <<>> \/ Len(str) < Len(old) THEN str
    ELSE IF SubSeq(str, 1, Len(old)) = old THEN Remove(SubSeq(str, Len(old) + 1, Len(str)), old)
    ELSE <<Head(str)>> \o Remove(Tail(str), old)

\* sub in str
Contains(str, sub) ==
    \E i \in 0..(Len(str) - Len(sub)) : SubSeq(str, i + 1, i + Len(sub)) = sub

\* get_prefix_paginator: every entry of the delimiter listing under folder_key, to
\* which "/" is added unless it is empty or ends with one
PrefixEntries(b, folder_key) ==
    ListEntries(b, IF folder_key # <<>> /\ ~EndsWithSlash(folder_key)
                   THEN Append(folder_key, SLASH) ELSE folder_key)

\* what get_files_within_folder and get_folders_within_folder make of the entries
Filtered(entries, folder_key, key_filter) ==
    LET objs == [i \in 1..Len(entries) |-> Remove(entries[i].key, folder_key)]
        Passes(obj) == ~(key_filter # None /\ key_filter # <<>> /\ ~Contains(obj, key_filter))
    IN  SelectSeq(objs, Passes)

get_files_within_folder(b, folder_key, key_filter) ==
    Filtered(SelectSeq(PrefixEntries(b, folder_key), IsContent), folder_key, key_filter)

get_folders_within_folder(b, folder_key, key_filter) ==
    Filtered(SelectSeq(PrefixEntries(b, folder_key), IsPrefix), folder_key, key_filter)

unpack_s3_obj_generator(b, path, filter_name, is_file) ==
    LET objs_at_depth == IF is_file THEN get_files_within_folder(b, path, filter_name)
                         ELSE get_folders_within_folder(b, path, filter_name)
    IN  [i \in 1..Len(objs_at_depth) |-> path \o objs_at_depth[i]]

get_filter_name(segments, current_depth) ==
    LET AtDepth(seg) == seg.depth = current_depth
        found == SelectSeq(segments, AtDepth)
    IN  IF found = <<>> THEN None
        ELSE IF found[1].name = None THEN found[1].incomplete_name ELSE found[1].name

\* new_paths chained: the matches below each of current_paths, in order
RECURSIVE UnpackEach(_, _, _, _)
UnpackEach(b, current_paths, filter_name, file_search_flag) ==
    IF current_paths = <<>> THEN <<>>
    ELSE unpack_s3_obj_generator(b, Head(current_paths), filter_name, file_search_flag)
            \o UnpackEach(b, Tail(current_paths), filter_name, file_search_flag)

\* lines 192-201: the loop over the depths from current_depth to max_depth, on
\* [paths, calls, trace]; calls counts the listings asked of the bucket, trace holds for
\* each depth the listings asked at it and the paths found at it
Step(b, segments, st, current_depth, max_depth, asked) ==
    LET filter_name == get_filter_name(segments, current_depth)
        file_search_flag == current_depth = max_depth /\ segments[Len(segments)].is_file
        new_paths == UnpackEach(b, st.paths, filter_name, file_search_flag)
    IN  [paths |-> new_paths,
         calls |-> st.calls + asked,
         trace |-> Append(st.trace, [depth |-> current_depth, calls |-> asked,
                                     found |-> Len(new_paths)])]

\* a loop that asks for a listing at every depth, also when no path is left
RECURSIVE MatchDepthsUnpruned(_, _, _, _, _)
MatchDepthsUnpruned(b, segments, st, current_depth, max_depth) ==
    IF current_depth > max_depth THEN st
    ELSE MatchDepthsUnpruned(b, segments,
                             Step(b, segments, st, current_depth, max_depth,
                                  Max({1, Len(st.paths)})),
                             current_depth + 1, max_depth)

RECURSIVE MatchDepths(_, _, _, _, _)
MatchDepths(b, segments, st, current_depth, max_depth) ==
    IF current_depth > max_depth THEN st
    ELSE MatchDepths(b, segments,
                     Step(b, segments, st, current_depth, max_depth, Len(st.paths)),
                     current_depth + 1, max_depth)

\* [keys, calls, trace, raised]
get_matching_s3_keys(b, segs) ==
    IF segs = <<>> THEN [keys |-> <<>>, calls |-> 0, trace |-> <<>>, raised |-> "IndexError"]
    ELSE LET segments == Sorted(segs)
             max_depth == segments[Len(segments)].depth
             Named(seg) == seg.name # None /\ seg.name # <<>>
             segment_depths == {segments[i].depth : i \in {j \in 1..Len(segments) : Named(segments[j])}}
             empty_depths == (0..max_depth) \ segment_depths
             prefix_len == IF empty_depths # {} THEN Min(empty_depths) ELSE Len(segments)
             upto  == IF prefix_len < Len(segments) THEN prefix_len ELSE Len(segments)
             names == [i \in 1..upto |-> segments[i].name]
         IN  IF \E i \in 1..upto : names[i] = None
             THEN [keys |-> <<>>, calls |-> 0, trace |-> <<>>, raised |-> "TypeError"]
             ELSE LET st == MatchDepths(b, segments,
                                        [paths |-> <<Join(names)>>, calls |-> 0, trace |-> <<>>],
                                        prefix_len, max_depth)
                  IN  [keys |-> st.paths, calls |-> st.calls, trace |-> st.trace,
                       raised |-> "none"]

MaxMatchStored == 2 \* objects in the bucket the segments are matched against

\* "f/a", "f/f", "f/fa", "f/s/c"
MatchStoreKeys == {K_fa, <<"f", "/", "f">>, <<"f", "/", "f", "a">>, K_fsc}

\* the segments of a search: named, unnamed, or unnamed with the incomplete name "a"
MatchSegs == KeySegs \cup {KeySegment(d, None, FALSE, <<"a">>) : d \in 0..MaxSegDepth}

\* the lists of a search hold at most one segment for a depth, in any order
MatchSegLists ==
    UNION {{segs \in [1..n -> MatchSegs] :
               \A i, j \in 1..n : i # j => segs[i].depth # segs[j].depth} : n \in 0..MaxSegs}

InitMatch ==
    /\ bucket \in Buckets(MatchStoreKeys, MaxMatchStored)
    /\ local = EmptyFn
    /\ callback = NoCallback
    /\ last = NoOperation
    /\ ops = 0
    /\ mpus = <<>>
    /\ rs = NotResuming
    /\ mlog = NoRequests
    /\ mp = NoMirrorPath
    /\ config = NoConfig
    /\ other = EmptyFn

\* one call of get_matching_s3_keys; is_file is the flag of every segment of the list
GetMatchingS3Keys(segs, is_file) ==
    LET segments == [i \in 1..Len(segs) |-> [segs[i] EXCEPT !.is_file = is_file]]
        r == get_matching_s3_keys(bucket, segments)
    IN  /\ last.op = "none"
        /\ last' = Record("get_matching_s3_keys", <<>>, FALSE,
                          [segments |-> segments, keys |-> r.keys, calls |-> r.calls,
                           trace |-> r.trace],
                          r.raised, <<>>, <<>>, <<>>)
        /\ UNCHANGED <<bucket, local, callback, ops, mpus, rs, mlog, mp, config, other>>

NextMatch ==
    /\ last.op = "none"
    /\ \E segs \in MatchSegLists, is_file \in BOOLEAN : GetMatchingS3Keys(segs, is_file)

SpecMatch == InitMatch /\ [][NextMatch]_vars

----------------------------------------------------------------------------
(* Properties of the query layer, continued *)

\* C11: key_exists_on_s3 never raises; it answers true for every stored file key and
\* for every folder, marker-only or not, with or without the trailing "/"; false for
\* a file key with "/" appended under which nothing is stored; false for a key whose
\* listing has no entry.
C11_KeyExists ==
    last.op = "key_exists_on_s3" =>
        /\ last.raised = "none"
        /\ (last.key \in DOMAIN last.pre \/ IsFolderOn(last.pre, last.key)) => last.ret = TRUE
        /\ (/\ EndsWithSlash(last.key)
            /\ LocalPath(last.key) \in DOMAIN last.pre
            /\ ~IsFolderOn(last.pre, last.key)) => last.ret = FALSE
        /\ ListEntries(last.pre, last.key) = <<>> => last.ret = FALSE

C11_Witness ==
    /\ last.op = "key_exists_on_s3"
    /\ last.key \notin DOMAIN last.pre
    /\ ~EndsWithSlash(last.key)
    /\ AsFolder(last.key) \in DOMAIN last.pre
    /\ Cardinality(DOMAIN last.pre) = 1
    /\ last.ret = TRUE

\* C12: key_size_on_s3 raises for a key that is absent (neither an object nor a
\* folder), answers the size of the object stored at exactly the key when the key is
\* a file, and 0 when the key matches only as a folder.
C12_KeySize ==
    last.op = "key_size_on_s3" =>
        IF AbsentOn(last.pre, last.key) THEN last.raised # "none"
        ELSE IF last.key \in DOMAIN last.pre /\ ~EndsWithSlash(last.key)
        THEN last.raised = "none" /\ last.ret = last.pre[last.key].size
        ELSE last.raised = "none" /\ last.ret = 0

\* C13: s3_list_child_keys sends one request per page of the listing and no more; its
\* result holds every content key but the key itself and every common prefix of every
\* page, each once, the entries of an earlier page before those of a later one.
C13_ListChildKeys ==
    last.op = "s3_list_child_keys" =>
        LET all  == ListEntries(last.pre, last.key)
            want == {all[i].key : i \in 1..Len(all)} \ {last.key}
            got  == last.ret.keys
            PageOf(k) == ((CHOOSE i \in 1..Len(all) : all[i].key = k) - 1) \div PageSize
        IN  /\ ToSet(got) = want
            /\ Len(got) = Cardinality(want)
            /\ \A i, j \in 1..Len(got) : i < j => PageOf(got[i]) <= PageOf(got[j])
            /\ last.ret.requests = IF Len(all) = 0 THEN 1 ELSE CeilDiv(Len(all), PageSize)

C13_Witness ==
    /\ last.op = "s3_list_child_keys"
    /\ last.key \in DOMAIN last.pre
    /\ last.ret.requests >= 2
    /\ Len(last.ret.keys) = 3
    /\ \E k \in DOMAIN last.pre : Beneath(k, last.key) /\ k \notin ToSet(last.ret.keys)

----------------------------------------------------------------------------
(* Properties of get_mpu and of resume_multipart_upload, continued *)

\* C14: get_mpu returns an open upload only if it has the MirrorPath's key and a part,
\* and nothing if there is none; every upload of that key without parts is aborted,
\* so that none remains afterwards; uploads of other keys are never aborted.
C14_GetMpu ==
    last.op = "get_mpu" =>
        LET before  == last.ret.before
            Resumable(m) == m.key = last.key /\ DOMAIN m.parts # {}
            Stale(m)     == m.key = last.key /\ DOMAIN m.parts = {}
        IN  /\ last.ret.found # 0 =>
                  \E i \in 1..Len(before) : before[i].id = last.ret.found /\ Resumable(before[i])
            /\ (\A i \in 1..Len(before) : ~Resumable(before[i])) => last.ret.found = 0
            /\ \A i \in 1..Len(before) : Stale(before[i]) => before[i].id \in last.ret.aborted
            /\ \A i \in 1..Len(mpus) : ~Stale(mpus[i])
            /\ \A i \in 1..Len(before) :
                  before[i].key # last.key =>
                      /\ before[i].id \notin last.ret.aborted
                      /\ \E j \in 1..Len(mpus) : mpus[j] = before[i]

\* no open upload of the MirrorPath's key holds a part
NothingToResume == \A i \in 1..Len(mpus) : ~(mpus[i].key = MpuKey /\ DOMAIN mpus[i].parts # {})

\* the step resume_multipart_upload takes when there is nothing to resume: the upload
\* is skipped if exists_on_s3() and made otherwise, parts are neither uploaded nor
\* completed, nothing is deleted, and the call is over
FallbackStep ==
    LET size == local[LocalPath(MpuKey)].size
        Kept(m) == ~(m.key = MpuKey /\ DOMAIN m.parts = {})
    IN  /\ IF exists_on_s3(bucket, MpuKey)
           THEN bucket' = bucket /\ mlog'.uploads = <<>>
           ELSE /\ bucket' = PutObject(bucket, MpuKey, [size |-> size, ctype |-> FileType])
                /\ mlog'.uploads = <<MpuKey>>
        /\ mlog'.calls = mlog.calls \o (IF callback.kind = "none" THEN <<>> ELSE <<size>>)
        /\ mpus' = SelectSeq(mpus, Kept)
        /\ mlog'.request = mlog.request
        /\ mlog'.finished = mlog.finished
        /\ mlog'.deleted = mlog.deleted
        /\ mlog'.restarts = mlog.restarts
        /\ rs'.pc = "done"

\* C15: with no open upload holding a part for the MirrorPath's key,
\* resume_multipart_upload does exactly upload_from_mirror_if_not_present: no part
\* upload, no completion, no delete; and a call that is over takes no further step.
C15_FallbackOnly ==
    [][/\ rs.pc \notin {"done", "raised"}
       /\ (rs.pc = "start" /\ NothingToResume) => FallbackStep]_vars

C15_Witness ==
    /\ mlog.event = "fallback"
    /\ mlog.aborted # {}
    /\ mlog.uploads = <<>>
    /\ MpuKey \in DOMAIN bucket
    /\ callback.seen > 0

\* C16: over one successful resume under an active callback, the callback is advanced
\* by the resumed offset at the seek and then by each new part's own byte size, the
\* last part's actual size included, so that the credits add up to the file's size.
C16_CreditsAddUp ==
    (/\ mlog.event = "complete"
     /\ rs.pc = "done"
     /\ mlog.restarts = 0
     /\ callback.kind # "none") =>
        /\ mlog.calls = <<mlog.part_size * Cardinality(mlog.present)>>
                           \o [i \in 1..Len(mlog.assigned) |-> mlog.assigned[i].len]
        /\ SumSeq(mlog.calls) = mlog.total

----------------------------------------------------------------------------
(* Properties of keys.py *)

\* every segment of the list has a name
AllNamed(segments) == \A i \in 1..Len(segments) : segments[i].name # None

\* C18: replace_key_segments with named segments returns a result for every key, and
\* applied to its own result with the same segments it returns that result again.
C18_ReplaceIdempotent ==
    (last.op = "replace_key_segments" /\ AllNamed(last.ret.segments)) =>
        /\ last.raised = "none"
        /\ last.ret.again => last.ret.key = last.key

\* C19: replacing the segment at a depth within the key by the name it has there
\* returns the key unchanged.
C19_ReplaceSameIsNoOp ==
    (/\ last.op = "replace_key_segments"
     /\ ~last.ret.again
     /\ Len(last.ret.segments) = 1
     /\ last.ret.segments[1].depth < Len(Split(last.key))
     /\ last.ret.segments[1].name = Split(last.key)[last.ret.segments[1].depth + 1]) =>
        /\ last.raised = "none"
        /\ last.ret.key = last.key

\* the first depth, from 0, at which the list has no segment
FirstGap(segments) ==
    Min({d \in 0..Len(segments) : \A i \in 1..Len(segments) : segments[i].depth # d})

\* the name the list gives depth d
NameAt(segments, d) ==
    (CHOOSE seg \in ToSet(segments) : seg.depth = d).name

\* C20: build_s3_key never raises; it returns the first depth without a segment and
\* the join of the names at the depths before it: the empty key for an empty list
\* and for a list without a segment at depth 0.
C20_BuildS3Key ==
    (/\ last.op = "build_s3_key"
     /\ AllNamed(last.ret.segments)
     /\ \A i, j \in 1..Len(last.ret.segments) :
           i # j => last.ret.segments[i].depth # last.ret.segments[j].depth) =>
        LET gap == FirstGap(last.ret.segments)
        IN  /\ last.raised = "none"
            /\ last.ret.depth = gap
            /\ last.ret.path = Join([d \in 1..gap |-> NameAt(last.ret.segments, d - 1)])

\* C17: for a list of N >= 1 named segments, one at each depth 0..N-1, build_s3_key
\* returns the N names joined with "/" (and next depth N), and get_matching_s3_keys
\* on the same list returns that one key and nothing else.
C17_BuildThenMatch ==
    (/\ last.op = "get_matching_s3_keys"
     /\ last.ret.segments # <<>>
     /\ AllNamed(last.ret.segments)
     /\ {last.ret.segments[i].depth : i \in 1..Len(last.ret.segments)}
           = 0..(Len(last.ret.segments) - 1)) =>
        LET N   == Len(last.ret.segments)
            key == Join([d \in 1..N |-> NameAt(last.ret.segments, d - 1)])
        IN  /\ build_s3_key(last.ret.segments) = [path |-> key, depth |-> N, raised |-> "none"]
            /\ last.raised = "none"
            /\ last.ret.keys = <<key>>

C17_Witness ==
    /\ last.op = "get_matching_s3_keys"
    /\ Len(last.ret.segments) = 3
    /\ last.ret.segments[1].depth = 2
    /\ last.ret.segments[2].depth = 0
    /\ AllNamed(last.ret.segments)
    /\ last.ret.keys = <<<<"f", "/", "a", "/", "f">>>>
    /\ bucket = EmptyFn

----------------------------------------------------------------------------
(* Properties of keys.py, continued *)

DistinctDepths(segments) ==
    \A i, j \in 1..Len(segments) : i # j => segments[i].depth # segments[j].depth

UnnamedDepths(segments) == {segments[i].depth : i \in {j \in 1..Len(segments) : segments[j].name = None}}

MaxDepthOf(segments) == Max({segments[i].depth : i \in 1..Len(segments)})

\* C21: for a list holding an unnamed segment (name = None) at an internal depth d,
\* below which every depth has a named segment, build_s3_key does not raise and
\* returns the join of the names at depths 0..d-1 and next depth d.
C21_UnnamedTruncates ==
    (/\ last.op = "build_s3_key"
     /\ DistinctDepths(last.ret.segments)
     /\ UnnamedDepths(last.ret.segments) # {}
     /\ Min(UnnamedDepths(last.ret.segments)) < FirstGap(last.ret.segments)
     /\ Min(UnnamedDepths(last.ret.segments)) < MaxDepthOf(last.ret.segments)) =>
        LET d == Min(UnnamedDepths(last.ret.segments))
        IN  /\ last.raised = "none"
            /\ last.ret.depth = d
            /\ last.ret.path = Join([i \in 1..d |-> NameAt(last.ret.segments, i - 1)])

\* C22: in get_matching_s3_keys, once a depth yields no matching path no listing is
\* asked for at any deeper depth and the result is empty; for three segments, depths 0
\* and 1 named and depth 2 unnamed, where nothing is stored under the two names joined,
\* the result is empty after exactly one listing in all.
C22_Pruning ==
    (last.op = "get_matching_s3_keys" /\ last.raised = "none") =>
        LET trace == last.ret.trace
            segments == Sorted(last.ret.segments)
        IN  /\ \A i \in 1..Len(trace) :
                  trace[i].found = 0 =>
                      /\ \A j \in (i + 1)..Len(trace) : trace[j].calls = 0
                      /\ last.ret.keys = <<>>
            /\ (/\ Len(segments) = 3
                /\ \A i \in 1..3 : segments[i].depth = i - 1
                /\ segments[1].name # None
                /\ segments[2].name # None
                /\ segments[3].name = None
                /\ segments[3].incomplete_name = None
                /\ ~IsFolderOn(bucket, Join(<<segments[1].name, segments[2].name>>))) =>
                   /\ last.ret.keys = <<>>
                   /\ last.ret.calls = 1

\* a depth without a match is followed by a deeper depth
C22_Witness ==
    /\ last.op = "get_matching_s3_keys"
    /\ last.raised = "none"
    /\ Len(last.ret.trace) = 2
    /\ last.ret.trace[1].calls = 1
    /\ last.ret.trace[1].found = 0
    /\ last.ret.calls = 1
    /\ bucket # EmptyFn

\* the names of the children the bucket holds directly under a folder prefix (empty,
\* or ending with "/"): of the objects, or of the folders
ChildNames(b, prefix, files) ==
    LET under == {k \in DOMAIN b : StartsWith(k, prefix) /\ k # prefix}
        n == Len(prefix)
    IN  IF files
        THEN {SubSeq(k, n + 1, Len(k)) : k \in {x \in under : SlashAfter(x, n) = {}}}
        ELSE {SubSeq(k, n + 1, Min(SlashAfter(k, n)) - 1) :
                 k \in {x \in under : SlashAfter(x, n) # {}}}

\* a child's name against the segment the list has for the depth, if any
SegmentMatches(segments, d, child) ==
    IF \A i \in 1..Len(segments) : segments[i].depth # d THEN TRUE
    ELSE LET seg == CHOOSE x \in ToSet(segments) : x.depth = d
         IN  IF seg.name # None THEN child = seg.name
             ELSE IF seg.incomplete_name # None THEN Contains(child, seg.incomplete_name)
             ELSE TRUE

\* the keys that match from depth d down, below the folder prefixes P
RECURSIVE ExpectedBelow(_, _, _, _, _)
ExpectedBelow(b, segments, P, d, max_depth) ==
    IF d > max_depth THEN P
    ELSE LET files == d = max_depth /\ (CHOOSE x \in ToSet(segments) : x.depth = max_depth).is_file
             next  == UNION {{p \o c \o (IF files THEN <<>> ELSE <<SLASH>>) :
                                 c \in {x \in ChildNames(b, p, files) :
                                           SegmentMatches(segments, d, x)}} : p \in P}
         IN  ExpectedBelow(b, segments, next, d + 1, max_depth)

\* the first depth, from 0, without a named segment
FirstUnnamed(segments) ==
    Min({d \in 0..Len(segments) :
            \A i \in 1..Len(segments) : segments[i].depth = d => segments[i].name = None})

\* C23: in get_matching_s3_keys, at each depth after the initial named prefix, a
\* segment with a name matches exactly the children of that name, a segment with only
\* an incomplete name exactly the children whose name contains it, and a depth with
\* neither every child; the children are the files at the last depth of a file search
\* and the folders otherwise.
C23_MatchPerDepth ==
    (/\ last.op = "get_matching_s3_keys"
     /\ last.raised = "none"
     /\ last.ret.trace # <<>>) =>
        LET segments == last.ret.segments
            p == FirstUnnamed(segments)
            prefix == Join([d \in 1..p |-> NameAt(segments, d - 1)])
        IN  ToSet(last.ret.keys) =
                ExpectedBelow(bucket, segments,
                              {IF prefix = <<>> THEN prefix ELSE AsFolder(prefix)},
                              p, MaxDepthOf(segments))

----------------------------------------------------------------------------
(* mirror_path.py: the MirrorPath object, S3MPConfig, and the paths derived from *)
(* a MirrorPath.  Every attribute is a sequence, None where Python has None.     *)

MaxChain == 3       \* derived-path operations applied one after the other

BucketKeys == {<<"b", "1">>, <<"b", "2">>}

TheResource == <<"resource">>   \* boto3.resource("s3"), held by S3MPConfig
TheClient   == <<"client">>     \* boto3.client("s3"), held by S3MPConfig
TempDir     == <<"t">>          \* tempfile.gettempdir()
RootDir     == <<"r">>          \* a mirror root that was configured

\* s3_resource.Bucket(bucket_key)
Bucket(s3_resource, bucket_key) == <<s3_resource, bucket_key>>

\* S3MPConfig.default_bucket_key: [ret, raised]
default_bucket_key(cfg) ==
    IF cfg.default_bucket_key = None THEN [ret |-> None, raised |-> "ValueError"]
    ELSE [ret |-> cfg.default_bucket_key, raised |-> "none"]

\* S3MPConfig.s3_client: the field after the access
s3_client(cfg) == IF cfg.s3_client = None THEN [cfg EXCEPT !.s3_client = TheClient] ELSE cfg

\* S3MPConfig.s3_resource: the field after the access
s3_resource(cfg) == IF cfg.s3_resource = None THEN [cfg EXCEPT !.s3_resource = TheResource] ELSE cfg

\* S3MPConfig.mirror_root: the field after the access
mirror_root(cfg) == IF cfg.mirror_root = None THEN [cfg EXCEPT !.mirror_root = TempDir] ELSE cfg

\* get_env_mirror_root(): S3MPConfig.mirror_root is never None, the .env file is not read
get_env_mirror_root(cfg) == [ret |-> mirror_root(cfg).mirror_root, config |-> mirror_root(cfg)]

\* the names of a key that are not empty
NonEmptySegments(key) ==
    LET NotEmpty(seg) == seg # <<>>
    IN  SelectSeq(Split(key), NotEmpty)

\* mirror_root / s3_key: a key that starts with "/" replaces the root, empty names
\* and the trailing "/" are dropped
PathJoin(root, key) ==
    [root |-> IF key # <<>> /\ key[1] = SLASH THEN <<SLASH>> ELSE root,
     parts |-> NonEmptySegments(key)]

\* MirrorPath(s3_key, local_path, **kwargs)
MirrorPath(s3_key, local_path, _mirror_root, s3_bucket_key, resource, client, s3_bucket) ==
    [s3_key |-> s3_key, local_path |-> local_path, mirror_root |-> _mirror_root,
     s3_bucket_key |-> s3_bucket_key, s3_resource |-> resource, s3_client |-> client,
     s3_bucket |-> s3_bucket]

NoKwargs == [given |-> FALSE]

\* MirrorPath.from_s3_key(s3_key, **kwargs): [ret, config]
from_s3_key(s3_key, kwargs, cfg) ==
    LET root == get_env_mirror_root(cfg)
        local_path == PathJoin(root.ret, s3_key)
    IN  [ret |-> IF kwargs.given
                 THEN MirrorPath(s3_key, local_path, kwargs.mirror_root, kwargs.s3_bucket_key,
                                 kwargs.s3_resource, kwargs.s3_client, kwargs.s3_bucket)
                 ELSE MirrorPath(s3_key, local_path, root.ret, None, None, None, None),
         config |-> root.config]

\* _get_bucket_key: [mp, raised]
GetBucketKey(m, cfg) ==
    IF m.s3_bucket_key # None THEN [mp |-> m, raised |-> "none"]
    ELSE LET d == default_bucket_key(cfg)
         IN  IF d.raised # "none" THEN [mp |-> m, raised |-> d.raised]
             ELSE [mp |-> [m EXCEPT !.s3_bucket_key = d.ret], raised |-> "none"]

\* _get_resource: [mp, config]
GetResource(m, cfg) ==
    IF m.s3_resource # None THEN [mp |-> m, config |-> cfg]
    ELSE [mp |-> [m EXCEPT !.s3_resource = s3_resource(cfg).s3_resource],
          config |-> s3_resource(cfg)]

\* _get_client: [mp, config]
GetClient(m, cfg) ==
    IF m.s3_client # None THEN [mp |-> m, config |-> cfg]
    ELSE [mp |-> [m EXCEPT !.s3_client = s3_client(cfg).s3_client], config |-> s3_client(cfg)]

\* _get_bucket, after _get_bucket_key and _get_resource have filled their attributes
GetBucket(m) ==
    IF m.s3_bucket # None THEN m
    ELSE [m EXCEPT !.s3_bucket = Bucket(m.s3_resource, m.s3_bucket_key)]

\* _get_env_dict: [env, mp, config, raised]; mp is the MirrorPath after the call
get_env_dict(m, cfg) ==
    LET k == GetBucketKey(m, cfg)
        r == GetResource(k.mp, cfg)
        c == GetClient(r.mp, r.config)
        b == GetBucket(c.mp)
    IN  IF k.raised # "none"
        THEN [env |-> NoKwargs, mp |-> m, config |-> cfg, raised |-> k.raised]
        ELSE [env |-> [given |-> TRUE, mirror_root |-> m.mirror_root,
                       s3_bucket_key |-> b.s3_bucket_key, s3_resource |-> b.s3_resource,
                       s3_client |-> b.s3_client, s3_bucket |-> b.s3_bucket],
              mp |-> b, config |-> c.config, raised |-> "none"]

\* what a derived-path operation hands back: [ret, mp, config, raised]
Derived(new_key, e) ==
    IF e.raised # "none" THEN [ret |-> e.mp, mp |-> e.mp, config |-> e.config, raised |-> e.raised]
    ELSE LET f == from_s3_key(new_key, e.env, e.config)
         IN  [ret |-> f.ret, mp |-> e.mp, config |-> f.config, raised |-> "none"]

\* MirrorPath.trim(max_depth), max_depth >= 0
trim(m, max_depth, cfg) ==
    LET segments == Split(m.s3_key)
        kept == IF Len(segments) > max_depth THEN SubSeq(segments, 1, max_depth) ELSE segments
    IN  Derived(Join(kept), get_env_dict(m, cfg))

\* lines 99-103 of keys.py: the loop over the sorted segments, on [ks, raised]; a
\* negative index counts from the end
RECURSIVE ReplaceEachRelative(_, _, _)
ReplaceEachRelative(st, segments, og_key_len) ==
    IF segments = <<>> \/ st.raised # "none" THEN st
    ELSE LET segment   == Head(segments)
             new_depth == segment.depth + og_key_len - 1
             grown     == IF new_depth >= Len(st.ks) THEN Append(st.ks, <<>>) ELSE st.ks
             index     == IF new_depth < 0 THEN Len(grown) + new_depth ELSE new_depth
         IN  IF index < 0 \/ index >= Len(grown)
             THEN [st EXCEPT !.raised = "IndexError"]
             ELSE ReplaceEachRelative([st EXCEPT !.ks = [grown EXCEPT ![index + 1] = segment.name]],
                                      Tail(segments), og_key_len)

\* a replacement at the depth counted from the root
replace_key_segments_at_absolute_depth(key, segments) ==
    LET st == ReplaceEach([ks |-> NonEmptySegments(key), raised |-> "none"],
                          Sorted(segments), Len(NonEmptySegments(key)))
    IN  IF st.raised # "none" THEN [ret |-> <<>>, raised |-> st.raised]
        ELSE [ret |-> Join(st.ks), raised |-> "none"]

\* replace_key_segments_at_relative_depth(key, segments): [ret, raised]
replace_key_segments_at_relative_depth(key, segments) ==
    LET key_segments == NonEmptySegments(key)
        st == ReplaceEachRelative([ks |-> key_segments, raised |-> "none"],
                                  Sorted(segments), Len(key_segments))
    IN  IF st.raised # "none" THEN [ret |-> <<>>, raised |-> st.raised]
        ELSE IF \E i \in 1..Len(st.ks) : st.ks[i] = None
        THEN [ret |-> <<>>, raised |-> "TypeError"]
        ELSE [ret |-> Join(st.ks), raised |-> "none"]

\* MirrorPath.replace_key_segments_at_relative_depth(segments): the key is computed
\* before _get_env_dict is called
ReplaceRelative(m, segments, cfg) ==
    LET new_key == replace_key_segments_at_relative_depth(m.s3_key, segments)
    IN  IF new_key.raised # "none"
        THEN [ret |-> m, mp |-> m, config |-> cfg, raised |-> new_key.raised]
        ELSE Derived(new_key.ret, get_env_dict(m, cfg))

get_sibling(m, sibling_name, cfg) ==
    ReplaceRelative(m, <<KeySegment(0, sibling_name, FALSE, None)>>, cfg)

get_child(m, child_name, cfg) ==
    ReplaceRelative(m, <<KeySegment(1, child_name, FALSE, None)>>, cfg)

\* MirrorPath.get_parent(): from_s3_key is called without the environment
get_parent(m, cfg) ==
    LET segs == NonEmptySegments(m.s3_key)
        stripped_key == Join(SubSeq(segs, 1, Len(segs) - 1))
    IN  Derived(stripped_key, [env |-> NoKwargs, mp |-> m, config |-> cfg, raised |-> "none"])

\* the keys of the MirrorPath at the start: "", "f", "f/a", "f/a/", "f//a"
SourceKeys == {<<>>, K_f, K_fa, K_fa_, <<"f", "/", "/", "a">>}

\* the names handed to get_sibling and get_child
DeriveNames == {<<"b">>, <<"c">>}

\* S3MPConfig before the first operation: a default bucket key or none, the boto3
\* objects created or not yet, a mirror root configured or not
Configs ==
    {[default_bucket_key |-> d, s3_client |-> o[1], s3_resource |-> o[2], bucket |-> None,
      mirror_root |-> r] :
        d \in BucketKeys \cup {None},
        o \in {<<None, None>>, <<TheClient, TheResource>>},
        r \in {None, RootDir}}

\* the MirrorPath before the first operation: made by from_s3_key, without keyword
\* arguments, with s3_bucket_key, or with s3_bucket
SourcePaths(cfg) ==
    {MirrorPath(key, PathJoin(mirror_root(cfg).mirror_root, key), mirror_root(cfg).mirror_root,
                kw[1], None, None, kw[2]) :
        key \in SourceKeys,
        kw \in {<<None, None>>, <<<<"b", "2">>, None>>,
                <<None, Bucket(TheResource, <<"b", "2">>)>>}}

InitDerive ==
    /\ bucket = EmptyFn
    /\ local = EmptyFn
    /\ callback = NoCallback
    /\ last = NoOperation
    /\ ops = 0
    /\ mpus = <<>>
    /\ rs = NotResuming
    /\ mlog = NoRequests
    /\ \E cfg \in Configs :
          /\ config = mirror_root(cfg)
          /\ mp \in SourcePaths(cfg)
    /\ other = EmptyFn

\* what is kept of one derived-path operation on the MirrorPath at hand
DeriveRecord(op, arg, r) ==
    Record(op, mp.s3_key, FALSE,
           [source |-> mp, after |-> r.mp, derived |-> r.ret, arg |-> arg,
            before |-> IF last.op = "none" THEN <<>>
                       ELSE <<[op |-> last.op, key |-> last.key, raised |-> last.raised]>>,
            config |-> config],
           r.raised, <<>>, <<>>, <<>>)

\* the path an operation returns is the one at hand for the next operation
Trim(max_depth) ==
    LET r == trim(mp, max_depth, config)
    IN  /\ ops < MaxChain
        /\ ops' = ops + 1
        /\ last' = DeriveRecord("trim", <<max_depth>>, r)
        /\ mp' = r.ret
        /\ config' = r.config
        /\ UNCHANGED <<bucket, local, callback, mpus, rs, mlog, other>>

GetSibling(name) ==
    LET r == get_sibling(mp, name, config)
    IN  /\ ops < MaxChain
        /\ ops' = ops + 1
        /\ last' = DeriveRecord("get_sibling", name, r)
        /\ mp' = r.ret
        /\ config' = r.config
        /\ UNCHANGED <<bucket, local, callback, mpus, rs, mlog, other>>

GetChild(name) ==
    LET r == get_child(mp, name, config)
    IN  /\ ops < MaxChain
        /\ ops' = ops + 1
        /\ last' = DeriveRecord("get_child", name, r)
        /\ mp' = r.ret
        /\ config' = r.config
        /\ UNCHANGED <<bucket, local, callback, mpus, rs, mlog, other>>

GetParent ==
    LET r == get_parent(mp, config)
    IN  /\ ops < MaxChain
        /\ ops' = ops + 1
        /\ last' = DeriveRecord("get_parent", <<>>, r)
        /\ mp' = r.ret
        /\ config' = r.config
        /\ UNCHANGED <<bucket, local, callback, mpus, rs, mlog, other>>

NextDerive ==
    \/ \E max_depth \in 0..2 : Trim(max_depth)
    \/ \E name \in DeriveNames : GetSibling(name)
    \/ \E name \in DeriveNames : GetChild(name)
    \/ GetParent

SpecDerive == InitDerive /\ [][NextDerive]_vars

----------------------------------------------------------------------------
(* Properties of the derived paths *)

DerivedPathOps == {"trim", "get_sibling", "get_child", "get_parent"}

\* C25: get_sibling, get_child, get_parent and trim change no attribute of the
\* MirrorPath they are called on, return a MirrorPath of their own, and leave the
\* remote store and the local mirror as they were.
C25_DerivedPathsPure ==
    last.op \in DerivedPathOps =>
        /\ last.ret.after = last.ret.source
        /\ last.raised = "none" => last.ret.derived.s3_key \in Seq({"f", "a", "b", "c", SLASH})
        /\ bucket = last.pre
        /\ local = last.preLocal

----------------------------------------------------------------------------
(* Local deletion: MirrorPath.delete_local and delete_local_path *)

MaxLocalFiles == 3  \* files in the local mirror before a deletion

\* "f/a", "f/b", "f/s/c", "f2"
LocalDeleteFiles == {K_fa, K_fb, K_fsc, K_f2}

\* the paths deleted: a directory with or without a subdirectory, a file, nothing
LocalDeletePaths == {K_f, K_fs, K_fa, K_f2, K_g}

\* path.iterdir(): the entries directly in a directory
DirEntries(loc, path) ==
    {p \in DOMAIN loc : /\ StartsWith(p, Append(path, SLASH))
                         /\ SlashAfter(p, Len(path) + 1) = {}}

\* what the directory holds that unlink() removes
FileEntries(loc, path) == {p \in DirEntries(loc, path) : loc[p].kind = "file"}

Without(loc, S) == [x \in DOMAIN loc \ S |-> loc[x]]

\* delete_local_path(path): [local, raised].  iterdir() yields the entries in
\* arbitrary order and unlink() raises on a directory: unlinked is the set of files
\* that came before the first subdirectory.
delete_local_path(loc, path, unlinked) ==
    IF path \notin DOMAIN loc THEN [local |-> loc, raised |-> "none"]
    ELSE IF loc[path].kind = "dir"
    THEN IF DirEntries(loc, path) # FileEntries(loc, path)
         THEN [local |-> Without(loc, unlinked), raised |-> "IsADirectoryError"]
         ELSE [local |-> Without(loc, DirEntries(loc, path) \cup {path}), raised |-> "none"]
    ELSE [local |-> Without(loc, {path}), raised |-> "none"]

\* MirrorPath.delete_local(): the same steps on self.local_path
delete_local(loc, key, unlinked) == delete_local_path(loc, LocalPath(key), unlinked)

InitLocal ==
    /\ bucket = EmptyFn
    /\ local \in Mirrors(LocalDeleteFiles, MaxLocalFiles)
    /\ callback = NoCallback
    /\ last = NoOperation
    /\ ops = 0
    /\ mpus = <<>>
    /\ rs = NotResuming
    /\ mlog = NoRequests
    /\ mp = NoMirrorPath
    /\ config = NoConfig
    /\ other = EmptyFn

DeleteLocalPath(path) ==
    \E unlinked \in SUBSET FileEntries(local, path) :
        LET r == delete_local_path(local, path, unlinked)
        IN  /\ local' = r.local
            /\ last' = Record("delete_local_path", path, FALSE, FALSE, r.raised,
                              <<>>, <<>>, <<>>)
            /\ UNCHANGED <<bucket, callback, ops, mpus, rs, mlog, mp, config, other>>

MirrorDeleteLocal(key) ==
    \E unlinked \in SUBSET FileEntries(local, LocalPath(key)) :
        LET r == delete_local(local, key, unlinked)
        IN  /\ local' = r.local
            /\ last' = Record("delete_local", LocalPath(key), FALSE, FALSE, r.raised,
                              <<>>, <<>>, <<>>)
            /\ UNCHANGED <<bucket, callback, ops, mpus, rs, mlog, mp, config, other>>

NextLocal ==
    \/ \E path \in LocalDeletePaths : DeleteLocalPath(path)
    \/ \E key \in LocalDeletePaths \cup {K_f_} : MirrorDeleteLocal(key)

SpecLocal == InitLocal /\ [][NextLocal]_vars

\* C26: after MirrorPath.delete_local or delete_local_path on a directory, neither
\* the directory nor anything beneath it exists, nested subdirectories and what they
\* hold included, and the call does not raise; on a path that does not exist the call
\* changes nothing.
C26_LocalDeleteRemovesAll ==
    last.op \in {"delete_local", "delete_local_path"} =>
        /\ (last.key \in DOMAIN last.preLocal /\ last.preLocal[last.key].kind = "dir") =>
              /\ last.raised = "none"
              /\ \A p \in DOMAIN local :
                    p # last.key /\ ~StartsWith(p, Append(last.key, SLASH))
        /\ last.key \notin DOMAIN last.preLocal =>
              /\ last.raised = "none"
              /\ local = last.preLocal

----------------------------------------------------------------------------
(* MirrorPath.download_to_mirror for a MirrorPath that may name its bucket: the  *)
(* default bucket "b1" is `bucket`, the bucket "b2" is `other`.                  *)

MaxFolderStored == 2    \* objects in each of the two buckets

DefaultBucketKey == <<"b", "1">>
OtherBucketKey   == <<"b", "2">>

\* "f/", "f/a", "f/s/c", "f2"
FolderStoreKeys == {K_f_, K_fa, K_fsc, K_f2}

\* the keys of the MirrorPath: "f", "f/", "f/a", "f/s"
FolderKeys == {K_f, K_f_, K_fa, K_fs}

\* the download requests of one bucket
Tagged(bucket_key, downloads) ==
    [i \in 1..Len(downloads) |-> [bucket |-> bucket_key, key |-> downloads[i]]]

\* MirrorPath.download_to_mirror(overwrite) on a MirrorPath whose bucket is own_store:
\* the MirrorPath objects made for the objects of a folder (line 163, from_s3_key
\* without keyword arguments) address the default bucket
download_to_mirror_of(own_key, own_store, default_store, cb, st, key, overwrite) ==
    IF ~overwrite /\ exists_in_mirror(st.local, key)
    THEN LET sk == update_current_callback_on_skipped_transfer(cb, own_store, st.local, key,
                                                               TRUE, TRUE)
         IN  [st EXCEPT !.calls = @ \o sk.calls, !.raised = sk.raised]
    ELSE LET mk == MkdirParents(st.local, LocalPath(key))
             f  == is_file_on_s3(own_store, key)
             s1 == [st EXCEPT !.local = mk.local]
         IN  IF mk.raised # "none" THEN [st EXCEPT !.raised = mk.raised]
             ELSE IF f.raised # "none" THEN [s1 EXCEPT !.raised = f.raised]
             ELSE IF f.ret
             THEN [DownloadFile(own_store, cb, s1, key) EXCEPT
                      !.downloads = Tagged(own_key, @)]
             ELSE [DownloadEach(default_store, cb, s1, ObjectsFilter(own_store, key),
                                overwrite, 2) EXCEPT
                      !.downloads = Tagged(DefaultBucketKey, @)]

\* line 152, self._get_bucket(): the attributes it fills in
WithBucket(m, cfg) == GetBucket(GetResource(GetBucketKey(m, cfg).mp, cfg).mp)

InitFolder ==
    /\ bucket \in Buckets(FolderStoreKeys, MaxFolderStored)
    /\ other \in Buckets(FolderStoreKeys, MaxFolderStored)
    /\ local \in Mirrors({K_fa}, 1)
    /\ callback = NoCallback
    /\ last = NoOperation
    /\ ops = 0
    /\ mpus = <<>>
    /\ rs = NotResuming
    /\ mlog = NoRequests
    /\ config = [default_bucket_key |-> DefaultBucketKey, s3_client |-> None,
                 s3_resource |-> None, bucket |-> None, mirror_root |-> RootDir]
    /\ mp \in {MirrorPath(key, PathJoin(RootDir, key), RootDir, k, None, None, None) :
                  key \in FolderKeys, k \in {None, OtherBucketKey}}

\* mp.download_to_mirror(overwrite)
MirrorDownload(overwrite) ==
    LET own_key   == GetBucketKey(mp, config).mp.s3_bucket_key
        own_store == IF own_key = DefaultBucketKey THEN bucket ELSE other
        reached   == /\ overwrite \/ ~exists_in_mirror(local, mp.s3_key)
                     /\ MkdirParents(local, LocalPath(mp.s3_key)).raised = "none"
        st == [local |-> local, calls |-> <<>>, downloads |-> <<>>, raised |-> "none"]
        r  == download_to_mirror_of(own_key, own_store, bucket, callback, st, mp.s3_key,
                                    overwrite)
    IN  /\ ops < MaxOps
        /\ ops' = ops + 1
        /\ local' = r.local
        /\ callback' = Advance(callback, r.calls)
        /\ last' = Record("mp.download_to_mirror", mp.s3_key, overwrite,
                          [bucket_key |-> own_key, store |-> own_store], r.raised,
                          r.downloads, <<>>, r.calls)
        /\ mp' = IF reached THEN WithBucket(mp, config) ELSE mp
        /\ config' = IF reached THEN GetResource(GetBucketKey(mp, config).mp, config).config
                      ELSE config
        /\ UNCHANGED <<bucket, other, mpus, rs, mlog>>

NextFolder == \E overwrite \in BOOLEAN : MirrorDownload(overwrite)

SpecFolder == InitFolder /\ [][NextFolder]_vars

\* an object that is not a folder marker
IsFileObject(b, k) == k \in DOMAIN b /\ ~EndsWithSlash(k) /\ b[k].ctype # DirType

\* C27: after MirrorPath.download_to_mirror has returned for a key that is a folder on
\* the MirrorPath's bucket, and was not skipped as a whole, every file object stored
\* beneath the folder, at any depth, has been fetched from the MirrorPath's bucket and
\* is a file of the object's size at its key under the mirror root; an object whose
\* local file was there already is left alone when overwrite is false.
C27_FolderDownloadComplete ==
    (/\ last.op = "mp.download_to_mirror"
     /\ last.raised = "none"
     /\ last.key \notin DOMAIN last.ret.store
     /\ IsFolderOn(last.ret.store, last.key)
     /\ ~(~last.overwrite /\ exists_in_mirror(last.preLocal, last.key))) =>
        \A k \in DOMAIN last.ret.store :
            (Beneath(k, last.key) /\ IsFileObject(last.ret.store, k)) =>
                \/ ~last.overwrite /\ LocalPath(k) \in DOMAIN last.preLocal
                \/ /\ \E i \in 1..Len(last.downloads) :
                         last.downloads[i] = [bucket |-> last.ret.bucket_key, key |-> k]
                   /\ LocalPath(k) \in DOMAIN local
                   /\ local[LocalPath(k)] = [kind |-> "file", size |-> last.ret.store[k].size]

----------------------------------------------------------------------------
(* File-or-folder classification when the remote store answers with an error *)

MaxFaultStored == 2     \* objects in the bucket

\* "404", a key whose name holds the digits of the status code
K_404 == <<"4", "0", "4">>

\* "f/", "f/a", "f2", "404"
FaultStoreKeys == {K_f_, K_fa, K_f2, K_404}

FaultQueryKeys == FaultStoreKeys \cup {K_f, K_g}

\* what can go wrong with one request: nothing, access denied (a ClientError with
\* code 403), no connection (an EndpointConnectionError, not a ClientError)
Faults == {"none", "403", "network"}

\* the exception of a failed request: its class and str(e).  A ClientError reads
\* "An error occurred (<code>) when calling the <operation> operation: ...", an
\* EndpointConnectionError reads 'Could not connect to the endpoint URL: "<url>"'
\* and the URL ends with the key.
ClientError(code) == [class |-> "ClientError", str |-> <<"(">> \o code \o <<")">>]
EndpointConnectionError(key) ==
    [class |-> "EndpointConnectionError", str |-> <<"u", "r", "l", "/">> \o key]

\* client.head_object(Bucket, Key) / bucket.Object(key).content_type under a fault
HeadObjectUnder(b, k, fault) ==
    IF fault = "403" THEN [ok |-> FALSE, e |-> ClientError(<<"4", "0", "3">>)]
    ELSE IF fault = "network" THEN [ok |-> FALSE, e |-> EndpointConnectionError(k)]
    ELSE IF k \in DOMAIN b THEN [ok |-> TRUE, obj |-> b[k]]
    ELSE [ok |-> FALSE, e |-> ClientError(K_404)]

\* key_is_file_on_s3 under a fault of its head_object request: [ret, raised]
key_is_file_on_s3_under(b, key, fault) ==
    LET head == HeadObjectUnder(b, key, fault)
    IN  IF head.ok THEN [ret |-> TRUE, raised |-> "none"]
        ELSE IF Contains(head.e.str, K_404) THEN [ret |-> FALSE, raised |-> "none"]
        ELSE [ret |-> FALSE, raised |-> head.e.class]

\* MirrorPath.exists_on_s3 under a fault of its listing request: [ret, raised]
exists_on_s3_under(b, key, fault) ==
    IF fault = "403" THEN [ret |-> FALSE, raised |-> "ClientError"]
    ELSE IF fault = "network" THEN [ret |-> FALSE, raised |-> "EndpointConnectionError"]
    ELSE [ret |-> exists_on_s3(b, key), raised |-> "none"]

\* MirrorPath.is_file_on_s3 under a fault of the head request and one of the listing
\* request: [ret, raised]
is_file_on_s3_under(b, key, head_fault, list_fault) ==
    LET head == HeadObjectUnder(b, key, head_fault)
        ex   == exists_on_s3_under(b, key, list_fault)
    IN  IF head.ok THEN [ret |-> head.obj.ctype # DirType, raised |-> "none"]
        ELSE IF head.e.class # "ClientError" THEN [ret |-> FALSE, raised |-> head.e.class]
        ELSE IF ex.raised # "none" THEN [ret |-> FALSE, raised |-> ex.raised]
        ELSE IF ex.ret THEN [ret |-> FALSE, raised |-> "none"]
        ELSE [ret |-> FALSE, raised |-> "FileNotFoundError"]

InitFault ==
    /\ bucket \in Buckets(FaultStoreKeys, MaxFaultStored)
    /\ local = EmptyFn
    /\ callback = NoCallback
    /\ last = NoOperation
    /\ ops = 0
    /\ mpus = <<>>
    /\ rs = NotResuming
    /\ mlog = NoRequests
    /\ mp = NoMirrorPath
    /\ config = NoConfig
    /\ other = EmptyFn

KeyIsFileUnder(key, fault) ==
    LET r == key_is_file_on_s3_under(bucket, key, fault)
    IN  /\ last' = Record("key_is_file_on_s3", key, FALSE,
                          [answer |-> r.ret, head_fault |-> fault, list_fault |-> "none"],
                          r.raised, <<>>, <<>>, <<>>)
        /\ UNCHANGED <<bucket, local, callback, ops, mpus, rs, mlog, mp, config, other>>

MirrorIsFileUnder(key, head_fault, list_fault) ==
    LET r == is_file_on_s3_under(bucket, key, head_fault, list_fault)
    IN  /\ last' = Record("is_file_on_s3", key, FALSE,
                          [answer |-> r.ret, head_fault |-> head_fault,
                           list_fault |-> list_fault],
                          r.raised, <<>>, <<>>, <<>>)
        /\ UNCHANGED <<bucket, local, callback, ops, mpus, rs, mlog, mp, config, other>>

NextFault ==
    \/ \E key \in FaultQueryKeys, fault \in Faults : KeyIsFileUnder(key, fault)
    \/ \E key \in FaultQueryKeys, head_fault \in Faults, list_fault \in Faults :
          MirrorIsFileUnder(key, head_fault, list_fault)

SpecFault == InitFault /\ [][NextFault]_vars

\* the class of the exception a fault makes of a request
FaultClass(fault) == IF fault = "403" THEN "ClientError" ELSE "EndpointConnectionError"

\* C28: in key_is_file_on_s3 and MirrorPath.is_file_on_s3 only a 404 answer to the
\* head request is taken as "does not exist"; when the head request fails in another
\* way (access denied, no connection) the call raises that error and gives no answer,
\* and so does a failure of the listing that MirrorPath.is_file_on_s3 asks for after
\* a 404.
C28_OnlyNotFoundIsCaught ==
    last.op \in {"key_is_file_on_s3", "is_file_on_s3"} =>
        /\ last.ret.head_fault # "none" => last.raised = FaultClass(last.ret.head_fault)
        /\ (/\ last.ret.head_fault = "none"
            /\ last.key \notin DOMAIN bucket
            /\ last.ret.list_fault = "none") =>
              /\ last.ret.answer = FALSE
              /\ last.raised \in {"none", "FileNotFoundError"}
        /\ (/\ last.ret.head_fault = "none"
            /\ last.key \notin DOMAIN bucket
            /\ last.ret.list_fault # "none") =>
              last.raised = FaultClass(last.ret.list_fault)

----------------------------------------------------------------------------
(* A key that holds an object and has objects beneath it *)

MaxCollisionStored == 3     \* objects in the bucket

\* "f", "f/", "f/a", "f/s/c", "f2"
CollisionStoreKeys == {K_f, K_f_, K_fa, K_fsc, K_f2}

CollisionKeys == {K_f, K_f_, K_fa, K_fs}

CollisionBuckets ==
    UNION {{b \in [S -> UNION {ObjectsAt(k) : k \in CollisionStoreKeys}] :
               \A k \in S : b[k] \in ObjectsAt(k)} :
           S \in {T \in SUBSET CollisionStoreKeys : Cardinality(T) <= MaxCollisionStored}}

InitCollision ==
    /\ bucket \in CollisionBuckets
    /\ local = EmptyFn
    /\ callback = NoCallback
    /\ last = NoOperation
    /\ ops = 0
    /\ mpus = <<>>
    /\ rs = NotResuming
    /\ mlog = NoRequests
    /\ mp = NoMirrorPath
    /\ config = NoConfig
    /\ other = EmptyFn

\* MirrorPath.from_s3_key(key).is_file_on_s3()
MirrorIsFile(key) ==
    LET r == is_file_on_s3(bucket, key)
    IN  /\ last' = Record("is_file_on_s3", key, FALSE, r.ret, r.raised, <<>>, <<>>, <<>>)
        /\ UNCHANGED <<bucket, local, callback, ops, mpus, rs, mlog, mp, config, other>>

NextCollision ==
    \E key \in CollisionKeys :
        \/ KeyIsFile(key)
        \/ MirrorIsFile(key)
        \/ DeleteKey(key)
        \/ MirrorDeleteS3(key)
        \/ \E overwrite \in BOOLEAN : DownloadToMirror(key, overwrite)

SpecCollision == InitCollision /\ [][NextCollision]_vars

\* an object is stored at the key and objects are stored beneath it
Collision(b, key) == key \in DOMAIN b /\ \E k \in DOMAIN b : Beneath(k, key)

\* C29: for a key at which an object is stored and beneath which objects are stored,
\* key_is_file_on_s3 and MirrorPath.is_file_on_s3 answer "not a file", deletion
\* removes the objects beneath the key, and a download that is not skipped fetches
\* the objects beneath the key.
C29_FolderIsAuthoritative ==
    Collision(last.pre, last.key) =>
        /\ last.op \in {"key_is_file_on_s3", "is_file_on_s3"} =>
              last.raised = "none" /\ last.ret = FALSE
        /\ last.op \in {"delete_key_on_s3", "delete_s3"} =>
              \A k \in DOMAIN last.pre : Beneath(k, last.key) => k \notin DOMAIN bucket
        /\ (/\ last.op = "download_to_mirror"
            /\ last.raised = "none"
            /\ ~Skipped) =>
              \A k \in DOMAIN last.pre :
                  (Beneath(k, last.key) /\ IsFileObject(last.pre, k)) =>
                      \E i \in 1..Len(last.downloads) : last.downloads[i] = k

----------------------------------------------------------------------------
(* keys.py: the depth-first generator of matching keys *)

\* lines 159-171, read to the end by the caller: the keys yielded from path at
\* current_depth, in the order they are yielded; segments is sorted.
\* dfs_matching_key_gen, lines 128-150, is the same code with async for.
RECURSIVE DfsFrom(_, _, _, _)
RECURSIVE DfsEach(_, _, _, _)
DfsFrom(b, segments, path, current_depth) ==
    LET last_depth == segments[Len(segments)].depth
        filter_name == get_filter_name(segments, current_depth)
        file_search_flag == current_depth = last_depth /\ segments[Len(segments)].is_file
        paths_at_depth == unpack_s3_obj_generator(b, path, filter_name, file_search_flag)
    IN  (IF current_depth = last_depth THEN paths_at_depth ELSE <<>>)
            \o DfsEach(b, segments, paths_at_depth, current_depth + 1)

\* lines 170-171: the loop over paths_at_depth
DfsEach(b, segments, paths_at_depth, current_depth) ==
    IF paths_at_depth = <<>> THEN <<>>
    ELSE DfsFrom(b, segments, Head(paths_at_depth), current_depth)
            \o DfsEach(b, segments, Tail(paths_at_depth), current_depth)

\* list(sync_dfs_matching_key_gen(segs)): [keys, raised]
sync_dfs_matching_key_gen(b, segs) ==
    LET start == build_s3_key(segs)
    IN  IF start.raised # "none" THEN [keys |-> <<>>, raised |-> start.raised]
        ELSE [keys |-> DfsFrom(b, Sorted(segs), start.path, start.depth), raised |-> "none"]

InitDfs == InitMatch

\* one run of the generator to its end; is_file is the flag of every segment of the list
SyncDfsMatchingKeyGen(segs, is_file) ==
    LET segments == [i \in 1..Len(segs) |-> [segs[i] EXCEPT !.is_file = is_file]]
        r == sync_dfs_matching_key_gen(bucket, segments)
    IN  /\ last' = Record("sync_dfs_matching_key_gen", <<>>, FALSE,
                          [segments |-> segments, keys |-> r.keys],
                          r.raised, <<>>, <<>>, <<>>)
        /\ UNCHANGED <<bucket, local, callback, ops, mpus, rs, mlog, mp, config, other>>

NextDfs ==
    /\ last.op = "none"
    /\ \E segs \in MatchSegLists, is_file \in BOOLEAN : SyncDfsMatchingKeyGen(segs, is_file)

SpecDfs == InitDfs /\ [][NextDfs]_vars

\* the keys of a list, as a set
KeySet(keys) == {keys[i] : i \in 1..Len(keys)}

\* C30: for every list of segments and every bucket, the keys the depth-first
\* generator yields are, as a set, the keys get_matching_s3_keys returns for the
\* same list and bucket, and the one ends in an error only where the other does.
C30_GeneratorEqualsList ==
    last.op = "sync_dfs_matching_key_gen" =>
        LET r == get_matching_s3_keys(last.pre, last.ret.segments)
        IN  /\ (last.raised = "none") <=> (r.raised = "none")
            /\ (last.raised = "none" /\ r.raised = "none") =>
                  KeySet(last.ret.keys) = KeySet(r.keys)

----------------------------------------------------------------------------
(* Properties of resume_multipart_upload, continued *)

\* a part upload submitted in this attempt has failed
PartFailed == \E i \in 1..Len(rs.futures) : rs.futures[i].state = "failed"

\* C31: the completion request is sent only after every part upload submitted in the
\* attempt has returned its ETag; once a part upload has failed no completion request
\* (and so no delete request) is sent, and the upload stays open holding the parts it
\* had and the parts uploaded in the attempt.
C31_CompleteAfterAllParts ==
    /\ Requested =>
          /\ \A i \in 1..Len(mlog.assigned) :
                mlog.assigned[i].PartNumber \in ToSet(mlog.finished)
          /\ ~PartFailed
    /\ PartFailed =>
          /\ ~Requested
          /\ \E i \in 1..Len(mpus) :
                /\ mpus[i].id = rs.mpu
                /\ mpus[i].key = MpuKey
                /\ DOMAIN mpus[i].parts = mlog.present \cup ToSet(mlog.finished)

\* a part upload failed, another one of the attempt went through, and the call has raised
C31_Witness ==
    /\ PartFailed
    /\ rs.pc = "raised"
    /\ mlog.finished # <<>>

----------------------------------------------------------------------------
(* Properties of keys.py: replacing beyond the end of the key *)

\* C32: replace_key_segments with one named segment whose depth d is at least the
\* number of segments of the key returns the key extended: the segments the key had
\* are unchanged, every depth between them and d holds an empty placeholder, and
\* depth d holds the segment's name; for every such d.
C32_ReplaceExtends ==
    (/\ last.op = "replace_key_segments"
     /\ ~last.ret.again
     /\ Len(last.ret.segments) = 1
     /\ last.ret.segments[1].name # None
     /\ last.ret.segments[1].depth >= Len(Split(last.key))) =>
        LET d   == last.ret.segments[1].depth
            og  == Split(last.key)
            new == Split(last.ret.key)
        IN  /\ last.raised = "none"
            /\ Len(new) = d + 1
            /\ \A i \in 1..Len(og) : new[i] = og[i]
            /\ \A i \in (Len(og) + 1)..d : new[i] = <<>>
            /\ new[d + 1] = last.ret.segments[1].name

----------------------------------------------------------------------------
(* resume_multipart_upload run to its end: the main thread and the workers of the *)
(* executor keep running, so a step that can be taken is taken                    *)

\* the starts of InitMPU without a callback and with the largest executor: the callback
\* decides no branch of the call, and the runs of a smaller executor are among the
\* runs of a larger one
InitResume ==
    /\ InitMPU
    /\ callback = NoCallback
    /\ rs.max_threads = MaxThreads

SpecMPUFair == InitResume /\ [][NextMPU]_vars /\ WF_vars(NextMPU)

\* the call has returned or raised
Terminated == rs.pc \in {"done", "raised"}

\* the open uploads for the key that hold parts
OpenWithParts == {i \in 1..Len(mpus) : mpus[i].key = MpuKey /\ DOMAIN mpus[i].parts # {}}

\* a step that restarts the resume uses up an open upload with parts for the key, and
\* no step adds one
RestartConsumes ==
    /\ Cardinality(OpenWithParts') <= Cardinality(OpenWithParts)
    /\ mlog'.restarts > mlog.restarts =>
          /\ mlog'.restarts = mlog.restarts + 1
          /\ Cardinality(OpenWithParts') < Cardinality(OpenWithParts)

\* C33: resume_multipart_upload comes to an end; every restart after a size mismatch
\* uses up one open upload with parts for the key and none is ever added, so the
\* restarts are at most the uploads with parts open for the key at the first call; once
\* none is left the call falls back to the plain upload.
C33_ResumeTerminates ==
    /\ <>Terminated
    /\ [][RestartConsumes]_vars
    /\ [](mlog.event = "fallback" => OpenWithParts = {})

\* the resume restarted after a mismatch, found no upload left, fell back and returned
C33_Witness ==
    /\ mlog.restarts >= 1
    /\ mlog.event = "fallback"
    /\ rs.pc = "done"

----------------------------------------------------------------------------
(* Properties of the mirror transfers, continued *)

\* C34: download_to_mirror comes to an end by itself on every bucket: the calls it
\* makes on the objects listed under a folder never nest without end, also when the
\* listing holds the folder's own marker object.
C34_DownloadTerminates ==
    last.op = "download_to_mirror" => last.raised # "RecursionError"

----------------------------------------------------------------------------
(* callbacks.py and async_utils.py: transfers on worker threads that report to the *)
(* one callback.  `self._bytes_seen_so_far += bytes_progress` is a read of the     *)
(* attribute, an addition and a write of the attribute, and the interpreter may    *)
(* switch threads between them.                                                    *)

MaxWorkers == 2     \* transfers gathered by sync_gather_threads
MaxChunks == 2      \* calls of the callback one transfer makes

\* the byte counts a transfer reports, one per call of the callback
ChunkLists == UNION {[1..n -> 1..2] : n \in 1..MaxChunks}

\* round(x / y) of Python for non-negative integers: to the nearest, halves to even
Round(x, y) ==
    LET q == x \div y
        r == x % y
    IN  IF 2 * r < y THEN q
        ELSE IF 2 * r > y THEN q + 1
        ELSE IF q % 2 = 0 THEN q ELSE q + 1

\* FileSizeTQDMCallback.__init__: nothing seen, the bar at 0 of 100
FileSizeTQDMCallback(total_bytes) ==
    [kind |-> "tracking", objs |-> {}, seen |-> 0,
     total_bytes |-> total_bytes, most_recent_percent |-> 0]

InitThreads ==
    /\ \E chunks \in [1..MaxWorkers -> ChunkLists] :
          /\ rs = [pc |-> "gather",
                   workers |-> [t \in 1..MaxWorkers |->
                                   [pc |-> "transfer", chunks |-> chunks[t], read |-> 0]]]
          /\ callback = FileSizeTQDMCallback(
                            SumSeq([t \in 1..MaxWorkers |-> SumSeq(chunks[t])]))
    /\ mlog = [event |-> "none", reported |-> 0]
    /\ bucket = EmptyFn
    /\ local = EmptyFn
    /\ last = NoOperation
    /\ ops = 0
    /\ mpus = <<>>
    /\ mp = NoMirrorPath
    /\ config = NoConfig
    /\ other = EmptyFn

\* line 80, first half: the thread of transfer t enters __call__ with its next byte
\* count and reads self._bytes_seen_so_far
CallbackReads(t) ==
    /\ rs.workers[t].pc = "transfer"
    /\ rs.workers[t].chunks # <<>>
    /\ rs' = [rs EXCEPT !.workers[t].pc = "call", !.workers[t].read = callback.seen]
    /\ mlog' = [event |-> "call", reported |-> mlog.reported + Head(rs.workers[t].chunks)]
    /\ UNCHANGED <<bucket, local, callback, last, ops, mpus, mp, config, other>>

\* lines 80-85, the rest: the sum is written back and the bar moved
CallbackWrites(t) ==
    /\ rs.workers[t].pc = "call"
    /\ LET seen == rs.workers[t].read + Head(rs.workers[t].chunks)
           percentage == Min({Round(seen * 100, callback.total_bytes), 100})
       IN  callback' = [callback EXCEPT
                           !.seen = seen,
                           !.most_recent_percent = IF percentage > @ THEN percentage ELSE @]
    /\ rs' = [rs EXCEPT !.workers[t].pc = "transfer",
                        !.workers[t].chunks = Tail(@)]
    /\ mlog' = [mlog EXCEPT !.event = "return"]
    /\ UNCHANGED <<bucket, local, last, ops, mpus, mp, config, other>>

NextThreads ==
    \E t \in 1..MaxWorkers :
        \/ CallbackReads(t)
        \/ CallbackWrites(t)

SpecThreads == InitThreads /\ [][NextThreads]_vars

\* every transfer has made its last call of the callback and the call has returned
AllTransfersDone ==
    \A t \in 1..MaxWorkers : rs.workers[t].pc = "transfer" /\ rs.workers[t].chunks = <<>>

\* C35: when all the transfers that report to the one callback from their threads have
\* finished, the callback's bytes seen are the sum of the byte counts reported to it.
C35_NoLostIncrement ==
    AllTransfersDone => callback.seen = mlog.reported

----------------------------------------------------------------------------
(* global_config.py: the default bucket key is changed while buckets are in use *)

MaxConfigOps == 4   \* operations on S3MPConfig and the MirrorPath in one run

\* S3MPConfig.get_bucket(bucket_key): [ret, config, raised]
get_bucket(cfg, bucket_key) ==
    IF bucket_key # None /\ bucket_key # <<>>
    THEN [ret |-> Bucket(s3_resource(cfg).s3_resource, bucket_key),
          config |-> s3_resource(cfg), raised |-> "none"]
    ELSE IF cfg.bucket = None
    THEN LET c == s3_resource(cfg)
             d == default_bucket_key(c)
         IN  IF d.raised # "none" THEN [ret |-> None, config |-> c, raised |-> d.raised]
             ELSE [ret |-> Bucket(c.s3_resource, d.ret),
                   config |-> [c EXCEPT !.bucket = Bucket(c.s3_resource, d.ret)],
                   raised |-> "none"]
    ELSE [ret |-> cfg.bucket, config |-> cfg, raised |-> "none"]

\* MirrorPath._get_bucket: [ret, mp, config, raised]
MirrorPath_get_bucket(m, cfg) ==
    IF m.s3_bucket # None
    THEN [ret |-> m.s3_bucket, mp |-> m, config |-> cfg, raised |-> "none"]
    ELSE LET r == GetResource(m, cfg)
             k == GetBucketKey(r.mp, r.config)
         IN  IF k.raised # "none"
             THEN [ret |-> None, mp |-> r.mp, config |-> r.config, raised |-> k.raised]
             ELSE [ret |-> GetBucket(k.mp).s3_bucket, mp |-> GetBucket(k.mp),
                   config |-> r.config, raised |-> "none"]

\* S3MPConfig as it is after import, with or without a default bucket key from the
\* config file, and a MirrorPath made by from_s3_key without keyword arguments
InitConfig ==
    /\ \E d \in BucketKeys \cup {None} :
          config = [default_bucket_key |-> d, s3_client |-> None, s3_resource |-> None,
                    bucket |-> None, mirror_root |-> RootDir]
    /\ mp = from_s3_key(K_fa, NoKwargs, config).ret
    /\ bucket = EmptyFn
    /\ local = EmptyFn
    /\ callback = NoCallback
    /\ last = NoOperation
    /\ ops = 0
    /\ mpus = <<>>
    /\ rs = NotResuming
    /\ mlog = NoRequests
    /\ other = EmptyFn

\* S3MPConfig.set_default_bucket_key(bucket_key)
SetDefaultBucketKey(bucket_key) ==
    /\ ops < MaxConfigOps
    /\ ops' = ops + 1
    /\ config' = [config EXCEPT !.default_bucket_key = bucket_key]
    /\ last' = Record("set_default_bucket_key", bucket_key, FALSE, None, "none",
                      <<>>, <<>>, <<>>)
    /\ UNCHANGED <<bucket, local, callback, mpus, rs, mlog, mp, other>>

\* S3MPConfig.bucket
ConfigBucket ==
    LET r == get_bucket(config, None)
    IN  /\ ops < MaxConfigOps
        /\ ops' = ops + 1
        /\ config' = r.config
        /\ last' = Record("bucket", <<>>, FALSE, r.ret, r.raised, <<>>, <<>>, <<>>)
        /\ UNCHANGED <<bucket, local, callback, mpus, rs, mlog, mp, other>>

\* a remote operation of the MirrorPath asks for its bucket
MirrorGetBucket ==
    LET r == MirrorPath_get_bucket(mp, config)
    IN  /\ ops < MaxConfigOps
        /\ ops' = ops + 1
        /\ mp' = r.mp
        /\ config' = r.config
        /\ last' = Record("_get_bucket", mp.s3_key, FALSE, r.ret, r.raised, <<>>, <<>>, <<>>)
        /\ UNCHANGED <<bucket, local, callback, mpus, rs, mlog, other>>

NextConfig ==
    \/ \E bucket_key \in BucketKeys : SetDefaultBucketKey(bucket_key)
    \/ ConfigBucket
    \/ MirrorGetBucket

SpecConfig == InitConfig /\ [][NextConfig]_vars

\* C36: S3MPConfig.bucket returns the bucket named by the default bucket key as it is
\* at the access, and a MirrorPath made without a bucket of its own addresses, at each
\* remote operation, the bucket named by the default bucket key as it is then.
C36_BucketFollowsDefaultKey ==
    (last.op \in {"bucket", "_get_bucket"} /\ last.raised = "none") =>
        last.ret = Bucket(TheResource, config.default_bucket_key)

----------------------------------------------------------------------------
(* Properties of keys.py: the keys a search returns *)

\* the key of a stored object, or a common prefix of stored keys
Reported(b, key) ==
    \/ key \in DOMAIN b
    \/ EndsWithSlash(key) /\ \E k \in DOMAIN b : StartsWith(k, key)

\* C37: every key get_matching_s3_keys returns after listing the bucket is the whole
\* key of a stored object or a common prefix of stored keys, as the listing reported
\* it; also when a name repeats the name of a folder above it in the key.
C37_ReturnedKeysAreReported ==
    (/\ last.op = "get_matching_s3_keys"
     /\ last.raised = "none"
     /\ last.ret.trace # <<>>) =>
        \A i \in 1..Len(last.ret.keys) : Reported(last.pre, last.ret.keys[i])

----------------------------------------------------------------------------
(* Properties of the derived paths, continued *)

\* the name of the bucket the remote operations of a MirrorPath go to: the bucket it
\* holds, else the one its bucket key names, else the default bucket
AddressedBucket(m, cfg) ==
    IF m.s3_bucket # None THEN m.s3_bucket[2]
    ELSE IF m.s3_bucket_key # None THEN m.s3_bucket_key
    ELSE cfg.default_bucket_key

\* C38: a MirrorPath returned by trim, get_sibling, get_child or get_parent addresses
\* the bucket its source addresses.
C38_DerivedKeepsBucket ==
    (last.op \in DerivedPathOps /\ last.raised = "none") =>
        AddressedBucket(last.ret.derived, config) = AddressedBucket(last.ret.source, config)

----------------------------------------------------------------------------
(* Properties of the query layer: strings that only begin a stored name *)

\* C39: key_exists_on_s3 and MirrorPath.exists_on_s3 answer true only for a key at
\* which an object is stored or a folder that holds stored keys; for a string that
\* only begins a stored name they answer false.
C39_ExistsOnlyForKeys ==
    last.op = "key_exists_on_s3" =>
        /\ last.ret = TRUE =>
              (last.key \in DOMAIN last.pre \/ IsFolderOn(last.pre, last.key))
        /\ exists_on_s3(last.pre, last.key) =>
              (last.key \in DOMAIN last.pre \/ IsFolderOn(last.pre, last.key))

====
